---- MODULE Spec2Model ----
(***************************************************************************)
(* Model of great_expectations/execution_engine/sparkdf_execution_engine.py *)
(*                                                                         *)
(* The engine evaluates expectations against the dataframe of its loaded   *)
(* batch.  A Spark DataFrame is modelled as a frame: its schema (a         *)
(* sequence of column names) and its rows (functions from column name to   *)
(* cell value).  Spark operations (withColumn, select, filter, limit,      *)
(* count, collect) are operators on frames; an operation Spark refuses     *)
(* (an unresolvable column, for instance) is a raised error.               *)
(***************************************************************************)
EXTENDS Integers, Sequences, FiniteSets, TLC

VARIABLES
    batches,          \* self.batches: batch id -> Batch
    loaded_batch_id,  \* self._loaded_batch_id
    metrics,          \* the metrics dictionary of the resolution pass
    last              \* the call just made: its inputs and its outcome

vars == <<batches, loaded_batch_id, metrics, last>>

(***************************************************************************)
(* Bounds of the model.                                                    *)
(***************************************************************************)
\* longest generated two-column table
MaxRows == 2
\* longest generated table that also has a column named like an
\* evaluation column
MaxStrayRows == 1
\* longest sequence of pending entries handed to batch_resolve
MaxPending == 2
\* latest load time the clock shows
MaxClock == 2

(***************************************************************************)
(* Cell values.  SQL NULL / Python None in a data cell is NULL; the other  *)
(* cell values are positive integers.  SQL booleans are three-valued.      *)
(***************************************************************************)
NULL == 0
Vals == {1, 2}
Cells == {NULL} \cup Vals
SQL_TRUE == "true"
SQL_FALSE == "false"
SQL_NULL == "null"
\* Python None for an optional integer parameter
NONE == -1

Min(a, b) == IF a <= b THEN a ELSE b
Range(s) == {s[i] : i \in 1..Len(s)}

\* SQL three-valued connectives and predicates
And3(p, q) ==
    IF p = SQL_FALSE \/ q = SQL_FALSE THEN SQL_FALSE
    ELSE IF p = SQL_NULL \/ q = SQL_NULL THEN SQL_NULL
    ELSE SQL_TRUE
Or3(p, q) ==
    IF p = SQL_TRUE \/ q = SQL_TRUE THEN SQL_TRUE
    ELSE IF p = SQL_NULL \/ q = SQL_NULL THEN SQL_NULL
    ELSE SQL_FALSE
Not3(p) ==
    IF p = SQL_NULL THEN SQL_NULL
    ELSE IF p = SQL_TRUE THEN SQL_FALSE ELSE SQL_TRUE
Bool3(b) == IF b THEN SQL_TRUE ELSE SQL_FALSE
isNull(v) == Bool3(v = NULL)
isNotNull(v) == Bool3(v # NULL)
\* a comparison with a NULL operand is NULL
Le3(x, y) == IF x = NULL \/ y = NULL THEN SQL_NULL ELSE Bool3(x <= y)
Lt3(x, y) == IF x = NULL \/ y = NULL THEN SQL_NULL ELSE Bool3(x < y)
Eq3(x, y) == IF x = NULL \/ y = NULL THEN SQL_NULL ELSE Bool3(x = y)
\* F.when(c, a).otherwise(b): b unless c is true
WhenOtherwise(c, a, b) == IF c = SQL_TRUE THEN a ELSE b

(***************************************************************************)
(* Column names are sequences of characters, so that the renaming of a     *)
(* column to its evaluation name is computed as the code computes it.      *)
(***************************************************************************)
ColA == <<"a">>
ColB == <<"b">>
SUCCESS == <<"__success">>
NULL_VAL == <<"__null_val">>
ROW == <<"__row">>
\* the backtick character of a column name
BACKTICK == "BACKTICK"

RECURSIVE replace(_, _, _)
\* str.replace(old, new) for a one-character old
replace(s, old, new) ==
    IF s = <<>> THEN <<>>
    ELSE (IF Head(s) = old THEN new ELSE <<Head(s)>>) \o replace(Tail(s), old, new)

\* prefix + column.replace(".", "__").replace(BACKTICK, "_")
EvalColName(prefix, column) ==
    <<prefix>> \o replace(replace(column, ".", <<"_", "_">>), BACKTICK, <<"_">>)

(***************************************************************************)
(* Frames                                                                  *)
(***************************************************************************)
Frame(cols, rows) == [cols |-> cols, rows |-> rows]
HasCol(df, c) == c \in Range(df.cols)
HasCols(df, cs) == \A i \in 1..Len(cs) : HasCol(df, cs[i])
count(df) == Len(df.rows)

\* col(name) of df: the column's value on each row
col(df, name) == [i \in 1..Len(df.rows) |-> df.rows[i][name]]

\* df.withColumn(name, values), values the new column's value on each row
withColumn(df, name, values) ==
    Frame(IF HasCol(df, name) THEN df.cols ELSE Append(df.cols, name),
          [i \in 1..Len(df.rows) |->
              LET r == df.rows[i]
              IN [c \in (DOMAIN r) \cup {name} |->
                     IF c = name THEN values[i] ELSE r[c]]])

\* df.select of the columns names, every name a column of df
select(df, names) ==
    Frame(names,
          [i \in 1..Len(df.rows) |-> [c \in Range(names) |-> df.rows[i][c]]])

\* df.filter("<column> = <value>"): the rows it is true on, in order
filter(df, column, value) ==
    Frame(df.cols, SelectSeq(df.rows, LAMBDA r : r[column] = value))

\* df.filter(col(column).isNotNull())
filterNotNull(df, column) ==
    Frame(df.cols, SelectSeq(df.rows, LAMBDA r : isNotNull(r[column]) = SQL_TRUE))

\* df.limit(n)
limit(df, n) == Frame(df.cols, SubSeq(df.rows, 1, Min(n, Len(df.rows))))

(***************************************************************************)
(* Result formats (parse_result_format has already been applied): a record *)
(* [result_format, partial_unexpected_count].                              *)
(***************************************************************************)
ResultFormatNames == {"BOOLEAN_ONLY", "BASIC", "SUMMARY", "COMPLETE"}
PartialCounts == {0, 1, 2}
ResultFormats ==
    [result_format : ResultFormatNames, partial_unexpected_count : PartialCounts]

\* mostly, in percent; NONE when unset
Mostlys == {NONE, 50}

(***************************************************************************)
(* Helpers of the base class, which the decorators call.                   *)
(***************************************************************************)
\* success is percent_success >= mostly, or all succeeded when mostly is
\* unset; no row in scope is a vacuous success, percent_success 1.0
calc_map_expectation_success(success_count, nonnull_count, mostly) ==
    IF nonnull_count > 0
    THEN [success |-> IF mostly # NONE
                      THEN success_count * 100 >= mostly * nonnull_count
                      ELSE nonnull_count - success_count = 0,
          percent_success |-> <<success_count, nonnull_count>>]
    ELSE [success |-> TRUE, percent_success |-> <<1, 1>>]

\* the keys of report["result"] for each result format tier
ResultKeys(result_format) ==
    IF result_format.result_format = "BOOLEAN_ONLY" THEN {}
    ELSE {"element_count", "missing_count", "missing_percent", "unexpected_count",
          "unexpected_percent", "unexpected_percent_nonmissing",
          "partial_unexpected_list"}
         \cup (IF result_format.result_format \in {"SUMMARY", "COMPLETE"}
               THEN {"partial_unexpected_index_list", "partial_unexpected_counts"}
               ELSE {})
         \cup (IF result_format.result_format = "COMPLETE"
               THEN {"unexpected_list", "unexpected_index_list"}
               ELSE {})

\* a percentage num / den * 100, kept as the pair; None on a zero denominator
Percent(num, den) == IF den > 0 THEN <<num, den>> ELSE <<NONE, NONE>>

\* the report: success, and unless BOOLEAN_ONLY a result of counts,
\* percentages and the evidence capped at partial_unexpected_count
format_map_output(result_format, success, element_count, nonnull_count, unexpected_count, unexpected_list, unexpected_index_list) ==
    LET partial == SubSeq(unexpected_list, 1,
                          Min(result_format.partial_unexpected_count,
                              Len(unexpected_list)))
        value(k) ==
            CASE k = "element_count" -> element_count
              [] k = "missing_count" -> element_count - nonnull_count
              [] k = "missing_percent" ->
                    Percent(element_count - nonnull_count, element_count)
              [] k = "unexpected_count" -> unexpected_count
              [] k = "unexpected_percent" -> Percent(unexpected_count, element_count)
              [] k = "unexpected_percent_nonmissing" ->
                    IF element_count > 0 THEN Percent(unexpected_count, nonnull_count)
                    ELSE <<NONE, NONE>>
              [] k = "partial_unexpected_list" -> partial
              [] k = "partial_unexpected_index_list" -> unexpected_index_list
              [] k = "partial_unexpected_counts" ->
                    {<<partial[i], Cardinality({j \in 1..Len(partial) :
                                                  partial[j] = partial[i]})>> :
                        i \in 1..Len(partial)}
              [] k = "unexpected_list" -> unexpected_list
              [] k = "unexpected_index_list" -> unexpected_index_list
    IN IF result_format.result_format = "BOOLEAN_ONLY"
       THEN [k \in {"success"} |-> success]
       ELSE [k \in {"success", "result"} |->
                IF k = "success" THEN success
                ELSE [x \in ResultKeys(result_format) |-> value(x)]]

(***************************************************************************)
(* The outcome of a call: a report, or a raised error.  pinned is the set  *)
(* of views the invocation persisted and has not unpersisted at its exit;  *)
(* queries counts the Spark actions (count, collect) it ran.               *)
(***************************************************************************)
NoReport == <<>>
Raised(error, pinned, queries) ==
    [outcome |-> "error", error |-> error, report |-> NoReport,
     element_count |-> NONE, nonnull_count |-> NONE, success_count |-> NONE,
     unexpected_count |-> NONE, evidence |-> <<>>,
     pinned |-> pinned, queries |-> queries]
Returned(report, element_count, nonnull_count, success_count, unexpected_count, evidence, pinned, queries) ==
    [outcome |-> "report", error |-> "", report |-> report,
     element_count |-> element_count, nonnull_count |-> nonnull_count,
     success_count |-> success_count, unexpected_count |-> unexpected_count,
     evidence |-> evidence, pinned |-> pinned, queries |-> queries]

\* what a wrapped expectation function gives back: a frame with a
\* __success column, or a raised error
FuncRaised(error) == [raised |-> TRUE, error |-> error, df |-> Frame(<<>>, <<>>)]
FuncReturned(df) == [raised |-> FALSE, error |-> "", df |-> df]

\* del return_obj["result"][key]: KeyError when the report has no result
\* or the result has no such key
CanDel(report, key) ==
    "result" \in DOMAIN report /\ key \in DOMAIN report["result"]
DelKey(report, key) ==
    [k \in DOMAIN report |->
        IF k = "result"
        THEN [x \in (DOMAIN report["result"]) \ {key} |-> report["result"][x]]
        ELSE report[k]]

\* self.loaded_batch
loaded_batch == batches[loaded_batch_id]

\* self.dataframe: the data of the loaded batch
dataframe == loaded_batch.data

\* self.dataframe.count()
get_row_count == count(dataframe)

\* self.dataframe.filter(col(column).isNotNull()).count(), column a column
\* of self.dataframe
get_column_nonnull_count(column) ==
    count(filterNotNull(dataframe, column))

(***************************************************************************)
(* Column statistics.  The frames of the model carry no types: the dtypes  *)
(* of the table are an argument, and the cells of a column stand for       *)
(* values of its type (those of a string column for strings that are no    *)
(* numbers).  A statistic is kept as the fraction num/den; stddev_samp is  *)
(* the square root of the fraction it is given as.                         *)
(***************************************************************************)
ColumnTypes == {"int", "double", "smallint", "string", "boolean"}
NumericTypes == {"int", "double", "smallint"}

RECURSIVE SumOf(_)
SumOf(values) == IF values = <<>> THEN 0 ELSE Head(values) + SumOf(Tail(values))

StatRaised(error) == [outcome |-> "error", error |-> error, null |-> TRUE, num |-> 0, den |-> 1]
StatNull == [outcome |-> "return", error |-> "", null |-> TRUE, num |-> 0, den |-> 1]
StatValue(num, den) == [outcome |-> "return", error |-> "", null |-> FALSE, num |-> num, den |-> den]

\* the non-null values of the column, as the aggregates see them
NonNullValues(column) == SelectSeq(col(dataframe, column), LAMBDA v : v # NULL)

\* self.get_column_mean(column)
get_column_mean(column, dtype) ==
    LET values == NonNullValues(column)
    IN  IF ~ HasCol(dataframe, column) THEN StatRaised("KeyError")
        ELSE IF dtype \notin {"int", "float", "double", "bigint"} THEN StatRaised("TypeError")
        ELSE IF values = <<>> THEN StatNull
        ELSE StatValue(SumOf(values), Len(values))

\* self.get_column_sum(column): groupBy().sum() sums the numeric columns of
\* the one-column frame, none for another type, and [0][0] reads the first
get_column_sum(column, dtype) ==
    LET values == NonNullValues(column)
    IN  IF ~ HasCol(dataframe, column) THEN StatRaised("AnalysisException")
        ELSE IF dtype \notin NumericTypes THEN StatRaised("IndexError")
        ELSE IF values = <<>> THEN StatNull
        ELSE StatValue(SumOf(values), 1)

\* self.get_column_stdev(column): stddev_samp casts a string column to
\* double and cannot take a boolean one
get_column_stdev(column, dtype) ==
    LET values == NonNullValues(column)
        n == Len(values)
        squares == [i \in 1..n |-> values[i] * values[i]]
    IN  IF ~ HasCol(dataframe, column) THEN StatRaised("AnalysisException")
        ELSE IF dtype = "boolean" THEN StatRaised("AnalysisException")
        ELSE IF dtype = "string" THEN StatNull
        ELSE IF n < 2 THEN StatNull
        ELSE StatValue(n * SumOf(squares) - SumOf(values) * SumOf(values), n * (n - 1))

ColumnStatistics == {"get_column_mean", "get_column_sum", "get_column_stdev"}
ColumnStatistic(name, column, dtype) ==
    CASE name = "get_column_mean" -> get_column_mean(column, dtype)
      [] name = "get_column_sum" -> get_column_sum(column, dtype)
      [] name = "get_column_stdev" -> get_column_stdev(column, dtype)

(***************************************************************************)
(* Column-map expectation functions.  Each receives a one-column frame     *)
(* (column[0] is its data) and returns it with a __success column added.   *)
(* allow_cross_type_comparisons and parse_strings_as_datetimes are left    *)
(* unset.                                                                  *)
(***************************************************************************)
NoArgs == [min_value |-> NONE, max_value |-> NONE,
           strict_min |-> FALSE, strict_max |-> FALSE]

expect_column_values_to_be_between(column, a) ==
    LET c == column.cols[1]
        lower(v) == IF a.strict_min THEN Lt3(a.min_value, v) ELSE Le3(a.min_value, v)
        upper(v) == IF a.strict_max THEN Lt3(v, a.max_value) ELSE Le3(v, a.max_value)
    IN IF a.min_value = NONE /\ a.max_value = NONE
       THEN FuncRaised("ValueError")
       ELSE IF a.min_value = NONE
       THEN FuncReturned(withColumn(column, SUCCESS,
                [i \in 1..count(column) |->
                    WhenOtherwise(upper(col(column, c)[i]), SQL_TRUE, SQL_FALSE)]))
       ELSE IF a.max_value = NONE
       THEN FuncReturned(withColumn(column, SUCCESS,
                [i \in 1..count(column) |->
                    WhenOtherwise(lower(col(column, c)[i]), SQL_TRUE, SQL_FALSE)]))
       ELSE IF a.min_value > a.max_value
       THEN FuncRaised("ValueError")
       ELSE FuncReturned(withColumn(column, SUCCESS,
                [i \in 1..count(column) |->
                    WhenOtherwise(And3(lower(col(column, c)[i]),
                                       upper(col(column, c)[i])),
                                  SQL_TRUE, SQL_FALSE)]))

expect_column_values_to_not_be_null(column) ==
    FuncReturned(withColumn(column, SUCCESS,
        [i \in 1..count(column) |-> isNotNull(col(column, column.cols[1])[i])]))

expect_column_values_to_be_null(column) ==
    FuncReturned(withColumn(column, SUCCESS,
        [i \in 1..count(column) |-> isNull(col(column, column.cols[1])[i])]))

\* value_set of expect_column_values_to_be_in_set: none is the Python None
\* given for the whole set, a NULL member is a None inside the set
ValueSet(none, values) == [none |-> none, values |-> values]

\* column[0].isin(value_set) on a cell
isin(v, values) ==
    IF v = NULL THEN SQL_NULL
    ELSE IF v \in values THEN SQL_TRUE ELSE SQL_FALSE

\* the function wrapped as expect_column_values_to_be_in_set
expect_column_values_to_be_in_set(column, value_set) ==
    IF value_set.none
    THEN FuncReturned(withColumn(column, SUCCESS, [i \in 1..count(column) |-> SQL_TRUE]))
    ELSE IF NULL \in value_set.values
    THEN FuncRaised("ValueError")
    ELSE FuncReturned(withColumn(column, SUCCESS, [i \in 1..count(column) |-> isin(col(column, column.cols[1])[i], value_set.values)]))

ColumnMapFuncs ==
    {"expect_column_values_to_be_between",
     "expect_column_values_to_be_in_set",
     "expect_column_values_to_not_be_null",
     "expect_column_values_to_be_null"}

\* func(self, col_df, *args, **kwargs)
ColumnMapFunc(func, col_df, args) ==
    CASE func = "expect_column_values_to_be_between" ->
            expect_column_values_to_be_between(col_df, args)
      [] func = "expect_column_values_to_be_in_set" ->
            expect_column_values_to_be_in_set(col_df, args)
      [] func = "expect_column_values_to_not_be_null" ->
            expect_column_values_to_not_be_null(col_df)
      [] func = "expect_column_values_to_be_null" ->
            expect_column_values_to_be_null(col_df)

\* the functions for which the decorator skips the null filter and strips
\* the missingness keys from the report
NullnessFuncs ==
    {"expect_column_values_to_not_be_null", "expect_column_values_to_be_null"}

\* the cap on the evidence: None for COMPLETE
UnexpectedCountLimit(result_format) ==
    IF result_format.result_format = "COMPLETE" THEN NONE
    ELSE result_format.partial_unexpected_count

\* "if unexpected_count_limit:" is the truth value of the limit
LimitApplies(unexpected_count_limit) ==
    unexpected_count_limit # NONE /\ unexpected_count_limit # 0

\* unexpected_count = nonnull_count - success_count
UnexpectedCount(nonnull_count, success_count) == nonnull_count - success_count

\* the evidence collected without the unexpected_count = 0 short-circuit
UnexpectedRows_unconditional(success_df, unexpected_count, unexpected_count_limit) ==
    LET unexpected_df == filter(success_df, SUCCESS, SQL_FALSE)
    IN IF LimitApplies(unexpected_count_limit)
       THEN limit(unexpected_df, unexpected_count_limit).rows
       ELSE unexpected_df.rows

\* the rows of success_df the decorator collects as evidence
UnexpectedRows(success_df, unexpected_count, unexpected_count_limit) ==
    IF unexpected_count = 0 THEN <<>>
    ELSE LET unexpected_df == filter(success_df, SUCCESS, SQL_FALSE)
         IN IF LimitApplies(unexpected_count_limit)
            THEN limit(unexpected_df, unexpected_count_limit).rows
            ELSE unexpected_df.rows

\* the "temp fix for result format" of the column-map decorator: three
\* unguarded deletions, then a guarded one
StripMissingness(return_obj) ==
    IF ~ CanDel(return_obj, "unexpected_percent_nonmissing")
    THEN [raised |-> TRUE, report |-> NoReport]
    ELSE LET r1 == DelKey(return_obj, "unexpected_percent_nonmissing")
         IN IF ~ CanDel(r1, "missing_count")
            THEN [raised |-> TRUE, report |-> NoReport]
            ELSE LET r2 == DelKey(r1, "missing_count")
                 IN IF ~ CanDel(r2, "missing_percent")
                    THEN [raised |-> TRUE, report |-> NoReport]
                    ELSE LET r3 == DelKey(r2, "missing_percent")
                         IN [raised |-> FALSE,
                             report |-> IF CanDel(r3, "partial_unexpected_counts")
                                        THEN DelKey(r3, "partial_unexpected_counts")
                                        ELSE r3]

\* the view col_df names when the decorator unpersists it: the selected
\* view, or for the filtered functions the view derived from it
ColumnMapReleased(func) ==
    IF func \in NullnessFuncs THEN "col_df" ELSE "col_df.filter"

column_map_expectation(func, column, mostly, result_format, args) ==
    LET eval_col == EvalColName("__eval_col_", column)
    IN IF ~ HasCol(dataframe, column)
       THEN Raised("AnalysisException", {}, 0)
       ELSE
       LET spark_df == withColumn(dataframe, eval_col, col(dataframe, column))
           unexpected_count_limit == UnexpectedCountLimit(result_format)
           selected == select(spark_df, <<eval_col>>)
           persisted == {"col_df"}
           element_count == get_row_count
       IN IF func \notin NullnessFuncs /\ ~ HasCol(dataframe, eval_col)
          THEN Raised("AnalysisException", persisted, 1)
          ELSE
          LET col_df == IF func \notin NullnessFuncs
                        THEN filterNotNull(selected, eval_col)
                        ELSE selected
              nonnull_count == IF func \notin NullnessFuncs
                               THEN get_column_nonnull_count(eval_col)
                               ELSE element_count
              counted == IF func \notin NullnessFuncs THEN 2 ELSE 1
              called == ColumnMapFunc(func, col_df, args)
          IN IF called.raised
             THEN Raised(called.error, persisted, counted)
             ELSE
             LET success_df == called.df
                 success_count ==
                     count(filter(success_df, SUCCESS, SQL_TRUE))
                 unexpected_count == UnexpectedCount(nonnull_count, success_count)
                 rows == UnexpectedRows(success_df, unexpected_count,
                                        unexpected_count_limit)
                 maybe_limited_unexpected_list ==
                     [i \in 1..Len(rows) |-> rows[i][eval_col]]
                 queries == counted + 1 + (IF unexpected_count = 0 THEN 0 ELSE 1)
                 calc == calc_map_expectation_success(success_count, nonnull_count,
                                                      mostly)
                 return_obj ==
                     format_map_output(result_format, calc.success, element_count,
                                       nonnull_count, unexpected_count,
                                       maybe_limited_unexpected_list, NONE)
                 stripped == IF func \in NullnessFuncs
                             THEN StripMissingness(return_obj)
                             ELSE [raised |-> FALSE, report |-> return_obj]
             IN IF stripped.raised
                THEN Raised("KeyError", persisted, queries)
                ELSE Returned(stripped.report, element_count, nonnull_count,
                              success_count, unexpected_count,
                              maybe_limited_unexpected_list,
                              persisted \ {ColumnMapReleased(func)}, queries)

(***************************************************************************)
(* Column-pair decorator                                                   *)
(***************************************************************************)
\* df.withColumn("__row", monotonically_increasing_id())
withRowId(df) ==
    Frame(Append(df.cols, ROW),
          [i \in 1..Len(df.rows) |->
              [c \in (DOMAIN df.rows[i]) \cup {ROW} |->
                  IF c = ROW THEN i ELSE df.rows[i][c]]])

RECURSIVE JoinRows(_, _)
\* the rows of an inner join on __row, left rows in order
JoinRows(left, right) ==
    IF left = <<>> THEN <<>>
    ELSE LET l == Head(left)
             matches == SelectSeq(right, LAMBDA r : r[ROW] = l[ROW])
         IN [i \in 1..Len(matches) |->
                [c \in (DOMAIN l) \cup (DOMAIN matches[i]) |->
                    IF c \in DOMAIN l THEN l[c] ELSE matches[i][c]]]
            \o JoinRows(Tail(left), right)

\* column_A.join(column_B, column_A["__row"] == column_B["__row"], how="inner")
joinOnRow(column_A, column_B) ==
    Frame(column_A.cols \o SelectSeq(column_B.cols, LAMBDA c : c # ROW),
          JoinRows(column_A.rows, column_B.rows))

\* the frames handed to a pair function hold __row and one data column
expect_column_pair_values_to_be_equal(column_A, column_B) ==
    LET column_A_name == column_A.cols[2]
        column_B_name == column_B.cols[2]
        join_df == joinOnRow(column_A, column_B)
    IN FuncReturned(withColumn(join_df, SUCCESS,
           [i \in 1..count(join_df) |->
               WhenOtherwise(Eq3(col(join_df, column_A_name)[i],
                                 col(join_df, column_B_name)[i]),
                             SQL_TRUE, SQL_FALSE)]))

\* value_pairs_set of expect_column_pair_values_to_be_in_set: a list of
\* pairs, in which a pair may stand more than once
PairSetArgs(value_pairs_set) == [value_pairs_set |-> value_pairs_set]

RECURSIVE LeftJoinPairs(_, _, _, _)
\* join_df.join(value_set_df, combine_AB == set_AB, "left") with __success:
\* one row for every pair of the list equal to the row's pair, marked true,
\* and one row marked false for a row that no pair equals
LeftJoinPairs(rows, column_A_name, column_B_name, value_pairs_set) ==
    IF rows = <<>> THEN <<>>
    ELSE LET r == Head(rows)
             matches ==
                 SelectSeq(value_pairs_set,
                           LAMBDA p : /\ r[column_A_name] # NULL
                                      /\ r[column_B_name] # NULL
                                      /\ p = <<r[column_A_name], r[column_B_name]>>)
             marked(s) == [c \in (DOMAIN r) \cup {SUCCESS} |->
                              IF c = SUCCESS THEN s ELSE r[c]]
         IN (IF matches = <<>> THEN <<marked(SQL_FALSE)>>
             ELSE [i \in 1..Len(matches) |-> marked(SQL_TRUE)])
            \o LeftJoinPairs(Tail(rows), column_A_name, column_B_name, value_pairs_set)

\* the array columns combine_AB and set_AB, which nothing reads afterwards,
\* are left out of the returned frame
expect_column_pair_values_to_be_in_set(column_A, column_B, value_pairs_set) ==
    LET column_A_name == column_A.cols[2]
        column_B_name == column_B.cols[2]
        join_df == joinOnRow(column_A, column_B)
    IN FuncReturned(Frame(Append(join_df.cols, SUCCESS),
           LeftJoinPairs(join_df.rows, column_A_name, column_B_name, value_pairs_set)))

ColumnPairFuncs ==
    {"expect_column_pair_values_to_be_equal", "expect_column_pair_values_to_be_in_set"}

\* func(self, col_A_df, col_B_df, *args, **kwargs)
ColumnPairFunc(func, col_A_df, col_B_df, args) ==
    CASE func = "expect_column_pair_values_to_be_equal" ->
            expect_column_pair_values_to_be_equal(col_A_df, col_B_df)
      [] func = "expect_column_pair_values_to_be_in_set" ->
            expect_column_pair_values_to_be_in_set(col_A_df, col_B_df,
                                                   args.value_pairs_set)

\* the __null_val of a row under ignore_row_if, for the policies whose
\* selectExpr arguments are all SQL strings
PairNullVal(ignore_row_if, a, b) ==
    IF ignore_row_if = "both_values_are_missing" THEN And3(isNull(a), isNull(b))
    ELSE Or3(isNull(a), isNull(b))

column_pair_map_expectation(func, column_A, column_B, mostly, ignore_row_if, result_format, args) ==
    LET eval_col_A == EvalColName("__eval_col_A_", column_A)
        eval_col_B == EvalColName("__eval_col_B_", column_B)
        A_name == <<"A_">> \o eval_col_A
        B_name == <<"B_">> \o eval_col_B
    IN IF ~ (HasCol(dataframe, column_A) /\ HasCol(dataframe, column_B))
       THEN Raised("AnalysisException", {}, 0)
       ELSE
       LET with_A == withColumn(dataframe, eval_col_A, col(dataframe, column_A))
           spark_df == withColumn(with_A, eval_col_B, col(with_A, column_B))
           unexpected_count_limit == UnexpectedCountLimit(result_format)
           cols_df == withRowId(select(spark_df, <<eval_col_A, eval_col_B>>))
           persisted == {"cols_df"}
           element_count == get_row_count
       IN IF ignore_row_if = "never"
          \* selectExpr is handed lit(False).alias("__null_val"), a Column
          \* and not a SQL string, which pyspark refuses
          THEN Raised("TypeError", persisted, 1)
          ELSE IF ignore_row_if \notin {"both_values_are_missing",
                                        "either_value_is_missing"}
          THEN Raised("ValueError", persisted, 1)
          ELSE
          LET boolean_mapped_null_values ==
                  Frame(<<ROW, A_name, B_name, NULL_VAL>>,
                        [i \in 1..Len(cols_df.rows) |->
                            LET r == cols_df.rows[i]
                            IN [c \in {ROW, A_name, B_name, NULL_VAL} |->
                                   IF c = ROW THEN r[ROW]
                                   ELSE IF c = A_name THEN r[eval_col_A]
                                   ELSE IF c = B_name THEN r[eval_col_B]
                                   ELSE PairNullVal(ignore_row_if, r[eval_col_A],
                                                    r[eval_col_B])]])
              nonnull_df == filter(boolean_mapped_null_values, NULL_VAL, SQL_FALSE)
              nonnull_count == count(nonnull_df)
              col_A_df == select(nonnull_df, <<ROW, A_name>>)
              col_B_df == select(nonnull_df, <<ROW, B_name>>)
              called == ColumnPairFunc(func, col_A_df, col_B_df, args)
          IN IF called.raised
             THEN Raised(called.error, persisted, 2)
             ELSE
             LET success_df == called.df
                 success_count ==
                     count(filter(success_df, SUCCESS, SQL_TRUE))
                 unexpected_count == UnexpectedCount(nonnull_count, success_count)
                 rows == UnexpectedRows(success_df, unexpected_count,
                                        unexpected_count_limit)
                 maybe_limited_unexpected_list ==
                     [i \in 1..Len(rows) |-> <<rows[i][A_name], rows[i][B_name]>>]
                 queries == 3 + (IF unexpected_count = 0 THEN 0 ELSE 1)
                 calc == calc_map_expectation_success(success_count, nonnull_count,
                                                      mostly)
                 return_obj ==
                     format_map_output(result_format, calc.success, element_count,
                                       nonnull_count, unexpected_count,
                                       maybe_limited_unexpected_list, NONE)
             IN Returned(return_obj, element_count, nonnull_count, success_count,
                         unexpected_count, maybe_limited_unexpected_list,
                         persisted \ {"cols_df"}, queries)

(***************************************************************************)
(* Multicolumn decorator                                                   *)
(***************************************************************************)
RECURSIVE reduce(_, _, _)
\* functools.reduce(op, seq[1:], first), op the SQL conjunction or disjunction
reduce(op, acc, s) ==
    IF s = <<>> THEN acc
    ELSE reduce(op, IF op = "and" THEN And3(acc, Head(s)) ELSE Or3(acc, Head(s)),
                Tail(s))

\* eqNullSafe: equal, two nulls counting as equal; never null
eqNullSafe(x, y) == Bool3(x = y)

\* the frame handed to a multicolumn function holds the evaluation columns
expect_multicolumn_values_to_be_unique(column_list) ==
    LET column_names == column_list.cols
        conditions(r) ==
            [i \in 1..(Len(column_names) - 1) |->
                Not3(eqNullSafe(r[column_names[i]], r[column_names[i + 1]]))]
    IN IF Len(column_names) < 2
       \* reduce of an empty sequence with no initial value
       THEN FuncRaised("TypeError")
       ELSE FuncReturned(withColumn(column_list, SUCCESS,
                [k \in 1..count(column_list) |->
                    LET r == column_list.rows[k]
                    IN  reduce("and", conditions(r)[1], Tail(conditions(r)))]))

MulticolumnFuncs == {"expect_multicolumn_values_to_be_unique"}

\* func(self, cols_df, *args, **kwargs)
MulticolumnFunc(func, cols_df) ==
    CASE func = "expect_multicolumn_values_to_be_unique" ->
            expect_multicolumn_values_to_be_unique(cols_df)

\* the frame spark_df after the loop over column_list: each pass starts
\* again from self.dataframe
MulticolumnSparkDf(column_list, eval_cols) ==
    LET n == Len(column_list)
    IN withColumn(dataframe, eval_cols[n], col(dataframe, column_list[n]))

\* the __null_val of a row under ignore_row_if
MulticolumnNullVal(ignore_row_if, nulls) ==
    IF ignore_row_if = "all_values_are_missing"
    THEN reduce("and", nulls[1], Tail(nulls))
    ELSE IF ignore_row_if = "any_value_is_missing"
    THEN reduce("or", nulls[1], Tail(nulls))
    ELSE SQL_FALSE

\* column_list is a non-empty sequence of distinct column names
multicolumn_map_expectation(func, column_list, mostly, ignore_row_if, result_format) ==
    LET eval_cols == [i \in 1..Len(column_list) |->
                         EvalColName("__eval_col_", column_list[i])]
    IN IF ~ HasCols(dataframe, column_list)
       THEN Raised("AnalysisException", {}, 0)
       ELSE
       LET spark_df == MulticolumnSparkDf(column_list, eval_cols)
           unexpected_count_limit == UnexpectedCountLimit(result_format)
       IN IF ~ HasCols(spark_df, eval_cols)
          THEN Raised("AnalysisException", {}, 0)
          ELSE
          LET temp_df == select(spark_df, eval_cols)
              persisted == {"temp_df"}
              element_count == get_row_count
          IN IF ignore_row_if \notin {"all_values_are_missing",
                                      "any_value_is_missing", "never"}
             THEN Raised("ValueError", persisted, 1)
             ELSE
             LET boolean_mapped_skip_values ==
                     withColumn(temp_df, NULL_VAL,
                         [k \in 1..count(temp_df) |->
                             MulticolumnNullVal(ignore_row_if,
                                 [i \in 1..Len(eval_cols) |->
                                     isNull(col(temp_df, eval_cols[i])[k])])])
                 nonnull_df == filter(boolean_mapped_skip_values, NULL_VAL, SQL_FALSE)
                 nonnull_count == count(nonnull_df)
                 cols_df == select(nonnull_df, eval_cols)
                 called == MulticolumnFunc(func, cols_df)
             IN IF called.raised
                THEN Raised(called.error, persisted, 2)
                ELSE
                LET success_df == called.df
                    success_count ==
                        count(filter(success_df, SUCCESS, SQL_TRUE))
                    unexpected_count ==
                        UnexpectedCount(nonnull_count, success_count)
                    rows == UnexpectedRows(success_df, unexpected_count,
                                           unexpected_count_limit)
                    maybe_limited_unexpected_list ==
                        [i \in 1..Len(rows) |->
                            [j \in 1..Len(column_list) |->
                                <<column_list[j], rows[i][eval_cols[j]]>>]]
                    queries == 3 + (IF unexpected_count = 0 THEN 0 ELSE 1)
                    calc == calc_map_expectation_success(success_count,
                                                         nonnull_count, mostly)
                    return_obj ==
                        format_map_output(result_format, calc.success,
                                          element_count, nonnull_count,
                                          unexpected_count,
                                          maybe_limited_unexpected_list, NONE)
                IN Returned(return_obj, element_count, nonnull_count,
                            success_count, unexpected_count,
                            maybe_limited_unexpected_list,
                            persisted \ {"temp_df"}, queries)

(***************************************************************************)
(* Domains.  Domain kwargs are a record of the five keys the engine reads; *)
(* ABSENT and NoColumn stand for a key the dict does not hold (or holds    *)
(* with a falsy value).                                                    *)
(***************************************************************************)
ABSENT == ""
NoColumn == <<>>
Domain(batch_id, table, row_condition, condition_parser, column) ==
    [batch_id |-> batch_id, table |-> table, row_condition |-> row_condition,
     condition_parser |-> condition_parser, column |-> column]

\* the row conditions of the model are "<column> IS NOT NULL"
RowConditionColumn(row_condition) == ColB

NoBatches == <<>>
NoFrame == Frame(<<>>, <<>>)
DomainRaised(error) == [raised |-> TRUE, error |-> error, data |-> NoFrame]
DomainData(data) == [raised |-> FALSE, error |-> "", data |-> data]

\* the choice of the batch: the sole supplied batch or the loaded one when
\* no batch_id is given, else the supplied batch of that id or the loaded
\* batch when it has that id
FindBatch_loaded_first(batch_id, batches_arg) ==
    IF batch_id = ABSENT
    THEN IF loaded_batch_id \in DOMAIN batches THEN "loaded"
         ELSE IF Cardinality(DOMAIN batches_arg) = 1 THEN "only"
         ELSE "no batch"
    ELSE IF batch_id = loaded_batch_id THEN "loaded"
         ELSE IF batch_id \in DOMAIN batches_arg THEN "named"
         ELSE "not found"
FindBatch_unambiguous(batch_id, batches_arg) ==
    IF batch_id = ABSENT
    THEN IF Cardinality(DOMAIN batches_arg) = 1 THEN "only"
         ELSE IF Cardinality(DOMAIN batches_arg) > 1 THEN "no batch"
         ELSE IF loaded_batch_id \in DOMAIN batches THEN "loaded"
         ELSE "no batch"
    ELSE IF batch_id \in DOMAIN batches_arg THEN "named"
         ELSE IF batch_id = loaded_batch_id THEN "loaded"
         ELSE "not found"
FindBatch(batch_id, batches_arg) ==
    IF batch_id = ABSENT
    THEN IF Cardinality(DOMAIN batches_arg) = 1 THEN "only"
         ELSE IF loaded_batch_id \in DOMAIN batches THEN "loaded"
         ELSE "no batch"
    ELSE IF batch_id \in DOMAIN batches_arg THEN "named"
         ELSE IF batch_id = loaded_batch_id THEN "loaded"
         ELSE "not found"

\* self.get_domain_dataframe(domain_kwargs, batches, filter_column_isnull)
get_domain_dataframe(domain_kwargs, batches_arg, filter_column_isnull) ==
    LET batch_id == domain_kwargs.batch_id
        found == FindBatch(batch_id, batches_arg)
        batch ==
            CASE found = "only" ->
                     batches_arg[CHOOSE id \in DOMAIN batches_arg : TRUE]
              [] found = "named" -> batches_arg[batch_id]
              [] OTHER -> loaded_batch
        row_condition == domain_kwargs.row_condition
        data == IF row_condition # ABSENT
                THEN filterNotNull(batch.data, RowConditionColumn(row_condition))
                ELSE batch.data
        column == domain_kwargs.column
        eval_column == column
        with_column == withColumn(data, eval_column, col(data, column))
    IN  IF found \in {"no batch", "not found"} THEN DomainRaised("ValidationError")
        ELSE IF domain_kwargs.table # ABSENT THEN DomainRaised("ValueError")
        ELSE IF row_condition # ABSENT /\ domain_kwargs.condition_parser # "spark"
        THEN DomainRaised("ValueError")
        ELSE IF row_condition # ABSENT
                /\ ~ HasCol(batch.data, RowConditionColumn(row_condition))
        THEN DomainRaised("AnalysisException")
        ELSE IF column = NoColumn THEN DomainData(data)
        ELSE IF ~ HasCol(data, column) THEN DomainRaised("AnalysisException")
        ELSE IF filter_column_isnull
        THEN DomainData(filterNotNull(with_column, eval_column))
        ELSE DomainData(with_column)

(***************************************************************************)
(* Map metrics.  A metric_fn is the function column_map_metric decorates;  *)
(* it turns the column into a condition, here the condition's value on a   *)
(* cell.  The condition a provider returns is kept as the expression it    *)
(* is: the column, the metric_fn and whether isNotNull() is and-ed to it.  *)
(***************************************************************************)
MetricFns == {"ge_2", "is_null", "not_null"}
MetricFn(metric_fn, v) ==
    CASE metric_fn = "ge_2" -> Le3(2, v)
      [] metric_fn = "is_null" -> isNull(v)
      [] metric_fn = "not_null" -> isNotNull(v)

Condition(column, metric_fn, guarded) ==
    [kind |-> "condition", column |-> column, metric_fn |-> metric_fn,
     guarded |-> guarded, n |-> 0]
NumberValue(n) ==
    [kind |-> "number", column |-> NoColumn, metric_fn |-> "", guarded |-> FALSE,
     n |-> n]
NoneValue ==
    [kind |-> "none", column |-> NoColumn, metric_fn |-> "", guarded |-> FALSE,
     n |-> 0]

\* the value of a condition on a row of a frame that has its column
EvalCondition(c, row) ==
    IF c.guarded
    THEN And3(isNotNull(row[c.column]), MetricFn(c.metric_fn, row[c.column]))
    ELSE MetricFn(c.metric_fn, row[c.column])

ProviderRaised(error) ==
    [outcome |-> "error", error |-> error, condition |-> NoneValue]
ProviderReturned(condition) ==
    [outcome |-> "return", error |-> "", condition |-> condition]

\* the provider without the null filter of its condition
inner_func_unfiltered(metric_fn, filter_column_isnull, batches_arg, metric_domain_kwargs) ==
    LET data == get_domain_dataframe(metric_domain_kwargs, batches_arg,
                                     filter_column_isnull)
    IN  IF data.raised THEN ProviderRaised(data.error)
        ELSE IF metric_domain_kwargs.column = NoColumn THEN ProviderRaised("KeyError")
        ELSE ProviderReturned(Condition(metric_domain_kwargs.column, metric_fn, FALSE))

\* the provider column_map_metric(..., filter_column_isnull)(metric_fn)
\* registers: inner_func(self, metric_name, batches, execution_engine,
\* metric_domain_kwargs, metric_value_kwargs, metrics)
inner_func(metric_fn, filter_column_isnull, batches_arg, metric_domain_kwargs) ==
    LET data == get_domain_dataframe(metric_domain_kwargs, batches_arg,
                                     filter_column_isnull)
        column == metric_domain_kwargs.column
        eval_col == column
        expected_condition == Condition(eval_col, metric_fn, filter_column_isnull)
    IN  IF data.raised THEN ProviderRaised(data.error)
        ELSE IF column = NoColumn THEN ProviderRaised("KeyError")
        ELSE ProviderReturned(expected_condition)

\* MetricEdgeKey(metric_name, metric_domain_kwargs, metric_value_kwargs,
\* filter_column_isnull).id; a metric name is the sequence of its parts
NoValueKwargs == <<>>
MetricEdgeKey(metric_name, metric_domain_kwargs, metric_value_kwargs, filter_column_isnull) ==
    [metric_name |-> metric_name, metric_domain_kwargs |-> metric_domain_kwargs,
     metric_value_kwargs |-> metric_value_kwargs,
     filter_column_isnull |-> filter_column_isnull]

\* metrics.get(key)
MetricsGet(metrics_arg, key) ==
    IF key \in DOMAIN metrics_arg THEN metrics_arg[key] ELSE NoneValue

endswith(metric_name, suffix) ==
    Len(metric_name) > 0 /\ metric_name[Len(metric_name)] = suffix
Stem(metric_name) == SubSeq(metric_name, 1, Len(metric_name) - 1)

\* self._column_map_count(metric_name, ..., metrics, filter_column_isnull)
column_map_count(metric_name, metric_domain_kwargs, metric_value_kwargs, metrics_arg, filter_column_isnull) ==
    LET metric_key == MetricEdgeKey(Stem(metric_name), metric_domain_kwargs,
                                    metric_value_kwargs, filter_column_isnull)
        domain_kwargs == [metric_domain_kwargs EXCEPT !.column = NoColumn]
    IN  IF ~ endswith(metric_name, ".count")
        THEN [raised |-> TRUE, error |-> "AssertionError",
              condition |-> NoneValue, domain_kwargs |-> domain_kwargs]
        ELSE [raised |-> FALSE, error |-> "",
              condition |-> MetricsGet(metrics_arg, metric_key),
              domain_kwargs |-> domain_kwargs]

\* metric_value_kwargs holding result_format alone, and the kwargs without it
ValueKwargs(result_format) == [k \in {"result_format"} |-> result_format]
BaseMetricValueKwargs(metric_value_kwargs) ==
    IF (DOMAIN metric_value_kwargs) \ {"result_format"} = {} THEN NoValueKwargs
    ELSE [k \in (DOMAIN metric_value_kwargs) \ {"result_format"} |-> metric_value_kwargs[k]]

EvidenceRaised(error) == [outcome |-> "error", error |-> error, collected |-> <<>>]
EvidenceReturned(collected) == [outcome |-> "return", error |-> "", collected |-> collected]

\* df.filter(~condition).rows and df.filter(condition).rows, df a frame
\* that has the condition's column
RowsWhere(df, condition) ==
    SelectSeq(df.rows, LAMBDA r : EvalCondition(condition, r) = SQL_TRUE)
RowsWhereNot(df, condition) ==
    SelectSeq(df.rows, LAMBDA r : Not3(EvalCondition(condition, r)) = SQL_TRUE)

\* self._column_map_values(metric_name, ..., metrics, filter_column_isnull)
column_map_values(metric_name, metric_domain_kwargs, metric_value_kwargs, metrics_arg, filter_column_isnull) ==
    LET result_format == metric_value_kwargs["result_format"]
        metric_key == MetricEdgeKey(Stem(metric_name), metric_domain_kwargs, BaseMetricValueKwargs(metric_value_kwargs), filter_column_isnull)
        condition == MetricsGet(metrics_arg, metric_key)
        column == metric_domain_kwargs.column
        domain == get_domain_dataframe(metric_domain_kwargs, NoBatches, FALSE)
        filtered == Frame(domain.data.cols, RowsWhereNot(domain.data, condition))
        selected == col(filtered, column)
    IN  IF ~ endswith(metric_name, ".unexpected_values") THEN EvidenceRaised("AssertionError")
        ELSE IF "result_format" \notin DOMAIN metric_value_kwargs THEN EvidenceRaised("KeyError")
        ELSE IF column = NoColumn THEN EvidenceRaised("KeyError")
        ELSE IF condition.kind # "condition" THEN EvidenceRaised("TypeError")
        ELSE IF domain.raised THEN EvidenceRaised(domain.error)
        ELSE IF result_format.result_format = "COMPLETE" THEN EvidenceReturned(selected)
        ELSE EvidenceReturned(SubSeq(selected, 1, Min(result_format.partial_unexpected_count, Len(selected))))

\* self._column_map_rows(metric_name, batches, execution_engine, ...,
\*                       metrics, filter_column_isnull)
column_map_rows(metric_name, batches_arg, metric_domain_kwargs, metric_value_kwargs, metrics_arg, filter_column_isnull) ==
    LET row_domain == [metric_domain_kwargs EXCEPT !.column = NoColumn]
        data == get_domain_dataframe(row_domain, batches_arg, filter_column_isnull)
        result_format == metric_value_kwargs["result_format"]
        metric_key == MetricEdgeKey(Stem(metric_name), metric_domain_kwargs, BaseMetricValueKwargs(metric_value_kwargs), filter_column_isnull)
        condition == MetricsGet(metrics_arg, metric_key)
        domain == get_domain_dataframe(metric_domain_kwargs, NoBatches, FALSE)
        filtered == RowsWhere(domain.data, condition)
    IN  IF data.raised THEN EvidenceRaised(data.error)
        ELSE IF ~ endswith(metric_name, ".unexpected_rows") THEN EvidenceRaised("AssertionError")
        ELSE IF "result_format" \notin DOMAIN metric_value_kwargs THEN EvidenceRaised("KeyError")
        ELSE IF domain.raised THEN EvidenceRaised(domain.error)
        ELSE IF condition.kind # "condition" THEN EvidenceRaised("TypeError")
        ELSE IF result_format.result_format = "COMPLETE" THEN EvidenceReturned(filtered)
        ELSE EvidenceReturned(SubSeq(filtered, 1, Min(result_format.partial_unexpected_count, Len(filtered))))

(***************************************************************************)
(* The bundled resolver.  A pending entry is (metric_to_resolve,           *)
(* metric_provider, metric_provider_kwargs); aggregates keeps the groups   *)
(* in the order their domain ids were first met.                           *)
(***************************************************************************)
\* the first index at which flags is true, 0 when there is none
IndexOf(flags) ==
    IF \E i \in 1..Len(flags) : flags[i]
    THEN CHOOSE i \in 1..Len(flags) : flags[i] /\ \A j \in 1..(i - 1) : ~ flags[j]
    ELSE 0

\* the first loop of batch_resolve: every provider is called and its
\* condition appended to the aggregate of its domain id
RECURSIVE CollectAggregates(_, _, _, _)
CollectAggregates(resolve_batch, metrics_arg, aggregates, provider_calls) ==
    IF resolve_batch = <<>>
    THEN [raised |-> FALSE, error |-> "", aggregates |-> aggregates,
          provider_calls |-> provider_calls]
    ELSE LET entry == Head(resolve_batch)
             provided == column_map_count(entry.kwargs.metric_name,
                                          entry.kwargs.metric_domain_kwargs,
                                          entry.kwargs.metric_value_kwargs,
                                          metrics_arg,
                                          entry.kwargs.filter_column_isnull)
             domain_id == provided.domain_kwargs
             at == IndexOf([g \in 1..Len(aggregates) |->
                                aggregates[g].domain_id = domain_id])
             opened == IF at = 0
                       THEN Append(aggregates,
                                   [domain_id |-> domain_id,
                                    column_conditions |-> <<>>, ids |-> <<>>,
                                    domain_kwargs |-> provided.domain_kwargs])
                       ELSE aggregates
             slot == IF at = 0 THEN Len(opened) ELSE at
             appended ==
                 [opened EXCEPT
                    ![slot].column_conditions = Append(@, provided.condition),
                    ![slot].ids = Append(@, entry.id)]
         IN  IF ~ entry.provider.can_be_bundled
             THEN [raised |-> TRUE, error |-> "AssertionError",
                   aggregates |-> aggregates, provider_calls |-> provider_calls]
             ELSE IF provided.raised
             THEN [raised |-> TRUE, error |-> provided.error,
                   aggregates |-> aggregates,
                   provider_calls |-> Append(provider_calls, entry.id)]
             ELSE CollectAggregates(Tail(resolve_batch), metrics_arg, appended,
                                    Append(provider_calls, entry.id))

\* F.sum over F.when(column_condition, 1).otherwise(0): None over no rows
SumWhen(df, column_condition) ==
    IF df.rows = <<>> THEN NoneValue
    ELSE NumberValue(Len(SelectSeq(df.rows,
             LAMBDA r : WhenOtherwise(EvalCondition(column_condition, r), 1, 0) = 1)))

\* metrics with nothing but the results
StoreResults_alone(metrics_arg, ids, res) ==
    [k \in Range(ids) |->
        res[CHOOSE i \in 1..Len(ids) :
                ids[i] = k /\ \A j \in (i + 1)..Len(ids) : ids[j] # k]]

\* for idx, id in enumerate(aggregate["ids"]): metrics[id] = res[0][idx]
StoreResults(metrics_arg, ids, res) ==
    [k \in (DOMAIN metrics_arg) \cup Range(ids) |->
        IF k \in Range(ids)
        THEN res[CHOOSE i \in 1..Len(ids) :
                     ids[i] = k /\ \A j \in (i + 1)..Len(ids) : ids[j] # k]
        ELSE metrics_arg[k]]

\* the end of a pass of the second loop, res being what collect() gave:
\* the two asserts on its shape, then the sums stored under the ids
StoreAggregate_first_row(metrics_arg, ids, res) ==
    IF res = <<>> \/ Len(ids) # Len(res[1])
    THEN [raised |-> TRUE, error |-> "AssertionError", metrics |-> metrics_arg]
    ELSE [raised |-> FALSE, error |-> "", metrics |-> StoreResults(metrics_arg, ids, res[1])]
StoreAggregate(metrics_arg, ids, res) ==
    IF Len(res) # 1
    THEN [raised |-> TRUE, error |-> "AssertionError", metrics |-> metrics_arg]
    ELSE IF Len(ids) # Len(res[1])
    THEN [raised |-> TRUE, error |-> "AssertionError", metrics |-> metrics_arg]
    ELSE [raised |-> FALSE, error |-> "", metrics |-> StoreResults(metrics_arg, ids, res[1])]

\* the second loop of batch_resolve: one aggregation per domain id, its
\* sums stored under the ids of the group
RECURSIVE ResolveAggregates(_, _, _)
ResolveAggregates(aggregates, metrics_arg, requested) ==
    IF aggregates = <<>>
    THEN [raised |-> FALSE, error |-> "", metrics |-> metrics_arg,
          requested |-> requested]
    ELSE LET aggregate == Head(aggregates)
             df == get_domain_dataframe(aggregate.domain_kwargs, NoBatches, FALSE)
             conditions == aggregate.column_conditions
             NoColumnObject(c) == c.kind # "condition"
             Unresolved(c) == c.kind = "condition" /\ ~ HasCol(df.data, c.column)
             failing == IndexOf([idx \in 1..Len(conditions) |->
                                    \/ NoColumnObject(conditions[idx])
                                    \/ Unresolved(conditions[idx])])
             res == [idx \in 1..Len(conditions) |-> SumWhen(df.data, conditions[idx])]
             stored == StoreAggregate(metrics_arg, aggregate.ids, <<res>>)
         IN  IF df.raised
             THEN [raised |-> TRUE, error |-> df.error, metrics |-> metrics_arg,
                   requested |-> requested]
             ELSE IF failing # 0
             THEN [raised |-> TRUE,
                   error |-> IF NoColumnObject(conditions[failing])
                             THEN "TypeError" ELSE "AnalysisException",
                   metrics |-> metrics_arg, requested |-> requested]
             ELSE IF stored.raised
             THEN [raised |-> TRUE, error |-> stored.error, metrics |-> metrics_arg,
                   requested |-> Append(requested, aggregate.ids)]
             ELSE ResolveAggregates(Tail(aggregates), stored.metrics,
                                    Append(requested, aggregate.ids))

\* a resolver that aggregates the groups collected before an entry failed
batch_resolve_late_failure(resolve_batch, metrics_arg) ==
    LET collected == CollectAggregates(resolve_batch, metrics_arg, <<>>, <<>>)
        resolved == ResolveAggregates(collected.aggregates, metrics_arg, <<>>)
    IN  [outcome |-> IF collected.raised \/ resolved.raised THEN "error" ELSE "return",
         error |-> IF collected.raised THEN collected.error ELSE resolved.error,
         metrics |-> resolved.metrics,
         provider_calls |-> collected.provider_calls,
         requested |-> resolved.requested]

\* self.batch_resolve(resolve_batch, metrics): the dictionary as the call
\* leaves it, the ids whose provider was called and, per aggregation
\* issued, the ids a sum was requested for
batch_resolve(resolve_batch, metrics_arg) ==
    LET collected == CollectAggregates(resolve_batch, metrics_arg, <<>>, <<>>)
        resolved == ResolveAggregates(collected.aggregates, metrics_arg, <<>>)
    IN  IF collected.raised
        THEN [outcome |-> "error", error |-> collected.error,
              metrics |-> metrics_arg,
              provider_calls |-> collected.provider_calls, requested |-> <<>>]
        ELSE [outcome |-> IF resolved.raised THEN "error" ELSE "return",
              error |-> resolved.error, metrics |-> resolved.metrics,
              provider_calls |-> collected.provider_calls,
              requested |-> resolved.requested]

(***************************************************************************)
(* The loaded batch's data.  Generated frames have the columns a and b     *)
(* and at most MaxRows rows; ScenarioFrame is the one-column frame         *)
(* [1, 2, 3, None, 5] of the documented scenarios.                         *)
(***************************************************************************)
PairRows == [{ColA, ColB} -> Cells]
GeneratedFrames ==
    {Frame(<<ColA, ColB>>, rows) :
        rows \in UNION {[1..n -> PairRows] : n \in 0..MaxRows}}
ScenarioFrame ==
    Frame(<<ColA>>, [i \in 1..5 |-> [c \in {ColA} |-> <<1, 2, 3, NULL, 5>>[i]]])
\* frames of a user whose table has a column named __eval_col_a already
StrayCol == EvalColName("__eval_col_", ColA)
StrayFrames ==
    {Frame(<<ColA, ColB, StrayCol>>, rows) :
        rows \in UNION {[1..n -> [{ColA, ColB, StrayCol} -> Cells]] :
                            n \in 1..MaxStrayRows}}
Frames == GeneratedFrames \cup StrayFrames \cup {ScenarioFrame}

\* a Batch, of which the model keeps the data
Batch(data) == [data |-> data]

(***************************************************************************)
(* Inputs of the calls                                                     *)
(***************************************************************************)
BetweenArgs ==
    {[min_value |-> 2, max_value |-> 4, strict_min |-> FALSE, strict_max |-> FALSE],
     [min_value |-> 2, max_value |-> 1, strict_min |-> FALSE, strict_max |-> FALSE],
     [min_value |-> NONE, max_value |-> 2, strict_min |-> FALSE, strict_max |-> TRUE]}
InSetArgs ==
    {ValueSet(TRUE, {}), ValueSet(FALSE, {1}), ValueSet(FALSE, {1, NULL})}
ColumnMapArgs(func) ==
    IF func = "expect_column_values_to_be_between" THEN BetweenArgs
    ELSE IF func = "expect_column_values_to_be_in_set" THEN InSetArgs
    ELSE {NoArgs}
\* lists of value pairs: one pair, one pair given twice, two pairs
PairSets == {<<<<1, 1>>>>, <<<<1, 1>>, <<1, 1>>>>, <<<<1, 2>>, <<2, 1>>>>}
ColumnPairArgs(func) ==
    IF func = "expect_column_pair_values_to_be_in_set"
    THEN {PairSetArgs(ps) : ps \in PairSets}
    ELSE {NoArgs}
PairIgnoreRowIf ==
    {"both_values_are_missing", "either_value_is_missing", "never", "sometimes"}
MulticolumnIgnoreRowIf ==
    {"all_values_are_missing", "any_value_is_missing", "never", "sometimes"}
ColumnLists == {<<ColA>>, <<ColA, ColB>>}

\* domain kwargs of the calls: no batch id, the loaded batch, a batch that
\* is not loaded, a named table, a row condition with and without the
\* parser "spark", no column
RowNotNullB == "b IS NOT NULL"
DomainOf(column) == Domain(ABSENT, ABSENT, ABSENT, ABSENT, column)
DomainWhere(column) == Domain(ABSENT, ABSENT, RowNotNullB, "spark", column)
DomainOfBatch(batch_id, column) == Domain(batch_id, ABSENT, ABSENT, ABSENT, column)
DomainKwargs ==
    {DomainOf(ColA), DomainOf(ColB), DomainOf(NoColumn), DomainWhere(ColA),
     DomainOfBatch("batch_1", ColA), DomainOfBatch("batch_2", ColA),
     Domain(ABSENT, "t", ABSENT, ABSENT, ColA),
     Domain(ABSENT, ABSENT, RowNotNullB, "pandas", ColA)}

\* two metrics declared with column_map_metric
Ge2 == [metric_name |-> <<"column_values.ge_2">>, metric_fn |-> "ge_2",
        filter_column_isnull |-> TRUE]
IsNull == [metric_name |-> <<"column_values.is_null">>, metric_fn |-> "is_null",
           filter_column_isnull |-> FALSE]

\* the pending entry of a metric's count and of its unexpected values
PendingEntry(metric, suffix, provider, bundle_computation, domain_kwargs) ==
    [id |-> MetricEdgeKey(metric.metric_name \o <<suffix>>, domain_kwargs,
                          NoValueKwargs, metric.filter_column_isnull),
     provider |-> [name |-> provider, can_be_bundled |-> bundle_computation],
     kwargs |-> [metric_name |-> metric.metric_name \o <<suffix>>,
                 metric_domain_kwargs |-> domain_kwargs,
                 metric_value_kwargs |-> NoValueKwargs,
                 filter_column_isnull |-> metric.filter_column_isnull]]
CountEntry(metric, domain_kwargs) ==
    PendingEntry(metric, ".count", "_column_map_count", TRUE, domain_kwargs)
ValuesEntry(metric, domain_kwargs) ==
    PendingEntry(metric, ".unexpected_values", "_column_map_values", FALSE,
                 domain_kwargs)
PendingEntries ==
    {CountEntry(Ge2, DomainOf(ColA)), CountEntry(IsNull, DomainOf(ColB)),
     CountEntry(Ge2, DomainWhere(ColA)),
     CountEntry(Ge2, DomainOfBatch("batch_2", ColA)),
     ValuesEntry(Ge2, DomainOf(ColA))}
ResolveBatches == UNION {[1..n -> PendingEntries] : n \in 1..MaxPending}

\* the metrics dictionary of a pass before its counts are resolved: a
\* sibling metric, and the conditions the providers returned
SiblingKey ==
    MetricEdgeKey(<<"table.row_count">>, DomainOf(NoColumn), NoValueKwargs, FALSE)
SiblingOnly == [k \in {SiblingKey} |-> NumberValue(get_row_count)]
ConditionKey(entry) ==
    MetricEdgeKey(Stem(entry.kwargs.metric_name), entry.kwargs.metric_domain_kwargs,
                  entry.kwargs.metric_value_kwargs, entry.kwargs.filter_column_isnull)
ConditionOf(metric, domain_kwargs) ==
    inner_func(metric.metric_fn, metric.filter_column_isnull, batches, domain_kwargs)
ConditionRequests ==
    {<<Ge2, DomainOf(ColA)>>, <<IsNull, DomainOf(ColB)>>, <<Ge2, DomainWhere(ColA)>>,
     <<Ge2, DomainOfBatch("batch_2", ColA)>>}
ConditionsResolved ==
    LET returned == {q \in ConditionRequests :
                        ConditionOf(q[1], q[2]).outcome = "return"}
        KeyOf(q) == MetricEdgeKey(q[1].metric_name, q[2], NoValueKwargs,
                                  q[1].filter_column_isnull)
    IN  [k \in {SiblingKey} \cup {KeyOf(q) : q \in returned} |->
            IF k = SiblingKey THEN NumberValue(get_row_count)
            ELSE LET q == CHOOSE q \in returned : KeyOf(q) = k
                 IN  ConditionOf(q[1], q[2]).condition]

NoOutcome ==
    [outcome |-> "none", error |-> "", report |-> NoReport,
     element_count |-> NONE, nonnull_count |-> NONE, success_count |-> NONE,
     unexpected_count |-> NONE, evidence |-> <<>>, pinned |-> {}, queries |-> 0]
NoInputs ==
    [func |-> "", columns |-> <<>>, mostly |-> NONE, ignore_row_if |-> "",
     result_format |-> [result_format |-> "BASIC", partial_unexpected_count |-> 0],
     args |-> NoArgs]
NoCall == [op |-> "none", in |-> NoInputs, out |-> NoOutcome]

Init ==
    /\ \E data \in Frames : batches = [id \in {"batch_1"} |-> Batch(data)]
    /\ loaded_batch_id = "batch_1"
    /\ metrics = <<>>
    /\ last = NoCall

\* a call of an expectation wrapped by column_map_expectation
ColumnMapCall ==
    /\ last.op = "none"
    /\ \E func \in ColumnMapFuncs, mostly \in Mostlys, result_format \in ResultFormats :
         \E args \in ColumnMapArgs(func) :
           last' = [op |-> "column_map_expectation",
                    in |-> [func |-> func, columns |-> <<ColA>>, mostly |-> mostly,
                            ignore_row_if |-> "", result_format |-> result_format,
                            args |-> args],
                    out |-> column_map_expectation(func, ColA, mostly,
                                                   result_format, args)]
    /\ UNCHANGED <<batches, loaded_batch_id, metrics>>

\* a call of an expectation wrapped by column_pair_map_expectation
ColumnPairCall ==
    /\ last.op = "none"
    /\ \E func \in ColumnPairFuncs, mostly \in Mostlys,
          ignore_row_if \in PairIgnoreRowIf, result_format \in ResultFormats :
         \E args \in ColumnPairArgs(func) :
           last' = [op |-> "column_pair_map_expectation",
                    in |-> [func |-> func, columns |-> <<ColA, ColB>>,
                            mostly |-> mostly, ignore_row_if |-> ignore_row_if,
                            result_format |-> result_format, args |-> args],
                    out |-> column_pair_map_expectation(func, ColA, ColB, mostly,
                                ignore_row_if, result_format, args)]
    /\ UNCHANGED <<batches, loaded_batch_id, metrics>>

\* a call of an expectation wrapped by multicolumn_map_expectation
MulticolumnCall ==
    /\ last.op = "none"
    /\ \E func \in MulticolumnFuncs, column_list \in ColumnLists, mostly \in Mostlys,
          ignore_row_if \in MulticolumnIgnoreRowIf, result_format \in ResultFormats :
           last' = [op |-> "multicolumn_map_expectation",
                    in |-> [func |-> func, columns |-> column_list,
                            mostly |-> mostly, ignore_row_if |-> ignore_row_if,
                            result_format |-> result_format, args |-> NoArgs],
                    out |-> multicolumn_map_expectation(func, column_list, mostly,
                                ignore_row_if, result_format)]
    /\ UNCHANGED <<batches, loaded_batch_id, metrics>>

\* a call of the provider column_map_metric registered for metric_fn
InnerFuncCall ==
    /\ last.op = "none"
    /\ \E metric_fn \in MetricFns, filter_column_isnull \in BOOLEAN,
          batches_arg \in {NoBatches, batches}, metric_domain_kwargs \in DomainKwargs :
         last' = [op |-> "inner_func",
                  in |-> [metric_fn |-> metric_fn,
                          filter_column_isnull |-> filter_column_isnull,
                          batches |-> batches_arg,
                          metric_domain_kwargs |-> metric_domain_kwargs],
                  out |-> inner_func(metric_fn, filter_column_isnull, batches_arg,
                                     metric_domain_kwargs)]
    /\ UNCHANGED <<batches, loaded_batch_id, metrics>>

\* the caller takes the report or the error; the engine is ready again
Return ==
    /\ last.op # "none"
    /\ last' = NoCall
    /\ UNCHANGED <<batches, loaded_batch_id, metrics>>

(***************************************************************************)
(* The histogram.  NEG_INF and POS_INF stand for -float("inf") and         *)
(* float("inf"); every value of a column lies strictly between them.       *)
(***************************************************************************)
NEG_INF == -100
POS_INF == 100

HistRaised(error) == [raised |-> TRUE, error |-> error, hist |-> <<>>]
HistReturned(hist) == [raised |-> FALSE, error |-> "", hist |-> hist]

\* the bucket Bucketizer(splits) puts v in, counted from 1: splits[i] <= v
\* < splits[i + 1], the last bucket taking its upper split as well
Bucket(splits, v) ==
    CHOOSE i \in 1..(Len(splits) - 1) :
        /\ splits[i] <= v
        /\ (v < splits[i + 1] \/ (i = Len(splits) - 1 /\ v = splits[i + 1]))

\* self.get_column_hist(column, bins), bins strictly increasing
get_column_hist(column, bins) ==
    LET added_min == bins[1] # NEG_INF
        bins_min == IF added_min THEN <<NEG_INF>> \o bins ELSE bins
        added_max == bins_min[Len(bins_min)] # POS_INF
        splits == IF added_max THEN Append(bins_min, POS_INF) ELSE bins_min
        temp_column == NonNullValues(column)
        upper_bound_count ==
            IF added_max
            THEN Len(SelectSeq(temp_column, LAMBDA v : v = splits[Len(splits) - 1]))
            ELSE 0
        counted == [i \in 1..(Len(splits) - 1) |->
                       Len(SelectSeq(temp_column, LAMBDA v : Bucket(splits, v) = i))]
        hist == [counted EXCEPT ![Len(counted) - 1] = @ + upper_bound_count]
        popped_min == IF added_min THEN Tail(hist) ELSE hist
        popped_max == IF added_max THEN SubSeq(popped_min, 1, Len(popped_min) - 1)
                      ELSE popped_min
    IN  IF ~ HasCol(dataframe, column) THEN HistRaised("AnalysisException")
        \* Bucketizer takes no fewer than three splits
        ELSE IF Len(splits) < 3 THEN HistRaised("IllegalArgumentException")
        \* hist[-2] of a list of one
        ELSE IF Len(counted) < 2 THEN HistRaised("IndexError")
        ELSE HistReturned(popped_max)

\* strictly increasing bin edges, two to four of them
BinEdges == {NEG_INF, 1, 2, 3, POS_INF}
Bins ==
    {b \in UNION {[1..n -> BinEdges] : n \in 2..4} : \A i \in 1..(Len(b) - 1) : b[i] < b[i + 1]}

\* the frames of evaluation columns handed to a multicolumn function: one
\* row over two or three columns
ColC == <<"c">>
UniqueColumnLists == {<<ColA, ColB>>, <<ColA, ColB, ColC>>}
UniqueFrames ==
    UNION {{Frame(cs, <<r>>) : r \in [Range(cs) -> Cells]} : cs \in UniqueColumnLists}

\* a call of expect_multicolumn_values_to_be_unique on a frame of evaluation
\* columns
MulticolumnUniqueCall ==
    /\ last.op = "none"
    /\ \E column_list \in UniqueFrames :
         last' = [op |-> "expect_multicolumn_values_to_be_unique",
                  in |-> [column_list |-> column_list],
                  out |-> expect_multicolumn_values_to_be_unique(column_list)]
    /\ UNCHANGED <<batches, loaded_batch_id, metrics>>

\* a call of get_column_hist on column a of the loaded table
ColumnHistCall ==
    /\ last.op = "none"
    /\ \E bins \in Bins :
         last' = [op |-> "get_column_hist",
                  in |-> [column |-> ColA, bins |-> bins],
                  out |-> get_column_hist(ColA, bins)]
    /\ UNCHANGED <<batches, loaded_batch_id, metrics>>

(***************************************************************************)
(* Reformatting of the evidence with output_strftime_format.  A collected  *)
(* value is a record of its Python type and its content: None, a string    *)
(* that reads as the date v (v = 0: as no date), an int, a datetime of the *)
(* date v; "formatted" is the string strftime gives for the date v.        *)
(***************************************************************************)
PyValue(kind, v) == [kind |-> kind, v |-> v]
PyNone == PyValue("None", 0)
PyValues ==
    {PyNone, PyValue("str", 1), PyValue("str", 0), PyValue("int", 1), PyValue("datetime", 1)}
PyPairValues == {PyNone, PyValue("str", 1), PyValue("int", 1)}

\* dateutil.parser.parse(val), val a string
parse(val) == IF val.v = 0 THEN PyValue("ValueError", 0) ELSE PyValue("datetime", val.v)
\* datetime.datetime.strftime(val, output_strftime_format)
strftime(val) ==
    IF val.kind = "datetime" THEN PyValue("formatted", val.v)
    ELSE IF val.kind = "ValueError" THEN val
    ELSE PyValue("TypeError", 0)
IsError(val) == val.kind \in {"ValueError", "TypeError"}

StrftimeRaised(error) == [raised |-> TRUE, error |-> error, list |-> <<>>]
StrftimeReturned(list) == [raised |-> FALSE, error |-> "", list |-> list]

\* the loop of the column-map decorator over maybe_limited_unexpected_list
ColumnMapStrftime(maybe_limited_unexpected_list) ==
    LET parsed == [i \in 1..Len(maybe_limited_unexpected_list) |->
                      LET val == maybe_limited_unexpected_list[i]
                      IN  IF val = PyNone THEN val
                          ELSE IF val.kind = "str" THEN strftime(parse(val))
                          ELSE strftime(val)]
        failed == IndexOf([i \in 1..Len(parsed) |-> IsError(parsed[i])])
    IN  IF failed # 0 THEN StrftimeRaised(parsed[failed].kind)
        ELSE StrftimeReturned(parsed)

\* the loop of the column-pair decorator over its list of pairs
ColumnPairStrftime(maybe_limited_unexpected_list) ==
    LET parsed == [i \in 1..Len(maybe_limited_unexpected_list) |->
                      LET val == maybe_limited_unexpected_list[i]
                      IN  IF val[1] = PyNone \/ val[2] = PyNone THEN val
                          ELSE IF val[1].kind = "str" /\ val[2].kind = "str"
                          THEN <<strftime(parse(val[1])), strftime(parse(val[2]))>>
                          ELSE <<strftime(val[1]), strftime(val[2])>>]
        failed == IndexOf([i \in 1..Len(parsed) |-> IsError(parsed[i][1]) \/ IsError(parsed[i][2])])
    IN  IF failed # 0
        THEN StrftimeRaised(IF IsError(parsed[failed][1]) THEN parsed[failed][1].kind ELSE parsed[failed][2].kind)
        ELSE StrftimeReturned(parsed)

\* the evidence lists handed to the loops
UnexpectedLists == UNION {[1..n -> PyValues] : n \in 1..2}
UnexpectedPairLists == UNION {[1..n -> PyPairValues \X PyPairValues] : n \in 1..2}

\* a decorator called with output_strftime_format reformats its evidence
StrftimeCall ==
    /\ last.op = "none"
    /\ \/ \E list \in UnexpectedLists :
            last' = [op |-> "column_map_strftime", in |-> [list |-> list],
                     out |-> ColumnMapStrftime(list)]
       \/ \E list \in UnexpectedPairLists :
            last' = [op |-> "column_pair_strftime", in |-> [list |-> list],
                     out |-> ColumnPairStrftime(list)]
    /\ UNCHANGED <<batches, loaded_batch_id, metrics>>

\* a call of get_column_mean, get_column_sum or get_column_stdev on a
\* column of the loaded table, of which dtype is the type
ColumnStatisticCall ==
    /\ last.op = "none"
    /\ \E name \in ColumnStatistics, dtype \in ColumnTypes :
         last' = [op |-> name,
                  in |-> [column |-> ColA, dtype |-> dtype],
                  out |-> ColumnStatistic(name, ColA, dtype)]
    /\ UNCHANGED <<batches, loaded_batch_id, metrics>>

Next ==
    \/ ColumnMapCall
    \/ ColumnPairCall
    \/ MulticolumnCall
    \/ InnerFuncCall
    \/ ColumnStatisticCall
    \/ StrftimeCall
    \/ ColumnHistCall
    \/ MulticolumnUniqueCall
    \/ Return

Spec == Init /\ [][Next]_vars

(***************************************************************************)
(* A resolution pass: the conditions are in the metrics dictionary or not  *)
(* yet, and batch_resolve is called with lists of pending entries.         *)
(***************************************************************************)
\* of column b the resolver's inputs read only whether it is null
ResolveRows == {r \in PairRows : r[ColB] \in {NULL, 1}}
ResolveFrames ==
    {Frame(<<ColA, ColB>>, rows) :
        rows \in UNION {[1..n -> ResolveRows] : n \in 0..MaxRows}}
    \cup {ScenarioFrame}

InitResolve ==
    /\ \E data \in ResolveFrames : batches = [id \in {"batch_1"} |-> Batch(data)]
    /\ loaded_batch_id = "batch_1"
    /\ \E resolved \in BOOLEAN :
         metrics = IF resolved THEN ConditionsResolved ELSE SiblingOnly
    /\ last = NoCall

\* a call of batch_resolve with the metrics dictionary of the pass, which
\* it updates in place
BatchResolveCall ==
    /\ last.op = "none"
    /\ \E resolve_batch \in ResolveBatches :
         LET out == batch_resolve(resolve_batch, metrics)
         IN  /\ last' = [op |-> "batch_resolve",
                         in |-> [resolve_batch |-> resolve_batch,
                                 metrics |-> metrics],
                         out |-> out]
             /\ metrics' = out.metrics
    /\ UNCHANGED <<batches, loaded_batch_id>>

\* the metric value kwargs handed to the evidence providers
EvidenceValueKwargs ==
    {NoValueKwargs} \cup {ValueKwargs(rf) : rf \in {f \in ResultFormats : f.result_format \in {"BASIC", "COMPLETE"}}}
\* the metrics and domains asked for: those whose condition a pass resolves
\* and one whose condition it does not
EvidenceRequests == ConditionRequests \cup {<<IsNull, DomainOf(ColA)>>}

\* a call of the provider of M.unexpected_values
ColumnMapValuesCall ==
    /\ last.op = "none"
    /\ \E q \in EvidenceRequests, metric_value_kwargs \in EvidenceValueKwargs :
         last' = [op |-> "_column_map_values",
                  in |-> [metric |-> q[1], metric_domain_kwargs |-> q[2],
                          metric_value_kwargs |-> metric_value_kwargs],
                  out |-> column_map_values(q[1].metric_name \o <<".unexpected_values">>, q[2], metric_value_kwargs, metrics, q[1].filter_column_isnull)]
    /\ UNCHANGED <<batches, loaded_batch_id, metrics>>

\* a call of the provider of M.unexpected_rows
ColumnMapRowsCall ==
    /\ last.op = "none"
    /\ \E q \in EvidenceRequests, metric_value_kwargs \in EvidenceValueKwargs :
         last' = [op |-> "_column_map_rows",
                  in |-> [metric |-> q[1], metric_domain_kwargs |-> q[2],
                          metric_value_kwargs |-> metric_value_kwargs],
                  out |-> column_map_rows(q[1].metric_name \o <<".unexpected_rows">>, batches, q[2], metric_value_kwargs, metrics, q[1].filter_column_isnull)]
    /\ UNCHANGED <<batches, loaded_batch_id, metrics>>

\* what collect() can hand to the asserts of the second loop: no row, one
\* row or two rows, of one to three values
AggregateIds ==
    {<<CountEntry(Ge2, DomainOf(ColA)).id>>,
     <<CountEntry(Ge2, DomainOf(ColA)).id, CountEntry(IsNull, DomainOf(ColB)).id>>}
AggregateRow(n) == [i \in 1..n |-> NumberValue(1)]
AggregateResults ==
    {<<>>, <<AggregateRow(1)>>, <<AggregateRow(2)>>, <<AggregateRow(3)>>,
     <<AggregateRow(1), AggregateRow(1)>>, <<AggregateRow(2), AggregateRow(2)>>}

\* the end of a pass of the second loop, on the result the engine gave
StoreAggregateCall ==
    /\ last.op = "none"
    /\ \E ids \in AggregateIds, res \in AggregateResults :
         LET out == StoreAggregate(metrics, ids, res)
         IN  /\ last' = [op |-> "store_aggregate",
                         in |-> [ids |-> ids, res |-> res, metrics |-> metrics],
                         out |-> out]
             /\ metrics' = out.metrics
    /\ UNCHANGED <<batches, loaded_batch_id>>

NextResolve ==
    \/ BatchResolveCall
    \/ StoreAggregateCall
    \/ ColumnMapValuesCall
    \/ ColumnMapRowsCall
    \/ Return

SpecResolve == InitResolve /\ [][NextResolve]_vars

(***************************************************************************)
(* Loading batches.  A batch specification is a record of its class, its   *)
(* path and its row limit; a batch definition a record of the keys the     *)
(* code reads, given being its truth value as a dict.                      *)
(***************************************************************************)
NoBatchSpec == [class |-> "", path |-> "", limit |-> 0]
PathBatchSpec(path) == [class |-> "PathBatchSpec", path |-> path, limit |-> 0]
OtherBatchSpec == [class |-> "BatchSpec", path |-> "memory", limit |-> 0]

NoBatchDefinition == [given |-> FALSE, data_connector |-> "", data_asset_name |-> "", partition_name |-> "", limit |-> 0]
BatchDefinition(data_connector, data_asset_name, partition_name, lim) == [given |-> TRUE, data_connector |-> data_connector, data_asset_name |-> data_asset_name, partition_name |-> partition_name, limit |-> lim]

\* batch_spec.to_id(): a digest of the specification's content
to_id(batch_spec) ==
    CASE batch_spec.path = "path_1" -> "batch_1"
      [] batch_spec.path = "path_2" -> "batch_2"
      [] OTHER -> "batch_3"

\* data_connector.build_batch_spec(batch_definition): the connector "files"
\* names a path, the connector "memory", of class DataConnector, does not
build_batch_spec(batch_definition) ==
    IF batch_definition.data_connector = "files" THEN PathBatchSpec("path_2")
    ELSE OtherBatchSpec
ConnectorClassName(data_connector) ==
    IF data_connector = "memory" THEN "DataConnector" ELSE "FilesDataConnector"

NoInMemoryDataset == NoFrame

\* Batch(execution_engine=self, batch_spec, data, batch_definition,
\*       batch_markers, data_context)
LoadedBatch(batch_spec, data, batch_definition, ge_load_time) ==
    [data |-> data, batch_spec |-> batch_spec, batch_definition |-> batch_definition,
     batch_markers |-> [ge_load_time |-> ge_load_time]]
NoBatch == LoadedBatch(NoBatchSpec, NoFrame, NoBatchDefinition, 0)

LoadRaised(error) == [outcome |-> "error", error |-> error, batch_id |-> ABSENT, batch |-> NoBatch, persisted |-> {}, cache |-> batches]
LoadReturned(batch_id, batch, persisted, cache) == [outcome |-> "batch", error |-> "", batch_id |-> batch_id, batch |-> batch, persisted |-> persisted, cache |-> cache]

\* the cache after a load: a new id gets the new Batch, a known id keeps
\* the Batch it has
StoreBatch_always(batch_id, batch) ==
    [id \in (DOMAIN batches) \cup {batch_id} |-> IF id = batch_id THEN batch ELSE batches[id]]
StoreBatch(batch_id, batch) ==
    IF batch_id \in DOMAIN batches THEN batches
    ELSE [id \in (DOMAIN batches) \cup {batch_id} |-> IF id = batch_id THEN batch ELSE batches[id]]

\* self.load_batch(batch_definition, batch_spec, in_memory_dataset) of an
\* engine made with persist=True; data_context tells whether the engine has
\* a data context, now is the clock and read what the reader finds at the
\* path.  The fields of the outcome: the Batch returned, the frames
\* persisted and the cache the call leaves.
load_batch(batch_definition, batch_spec, in_memory_dataset, data_context, now, read) ==
    LET branch ==
            IF batch_spec # NoBatchSpec /\ batch_definition.given THEN "both"
            ELSE IF batch_spec # NoBatchSpec THEN "spec"
            ELSE "definition"
        definition == batch_definition
        spec == IF branch = "definition" THEN build_batch_spec(batch_definition)
                ELSE batch_spec
        batch_id == to_id(spec)
        df_read == IF in_memory_dataset # NoInMemoryDataset THEN in_memory_dataset
                   ELSE read
        lim == IF definition.limit # 0 THEN definition.limit ELSE spec.limit
        df == IF lim # 0 THEN limit(df_read, lim) ELSE df_read
        batch == LoadedBatch(spec, df, definition, now)
        cache == StoreBatch(batch_id, batch)
    IN  IF branch = "definition" /\ ~ batch_definition.given
        THEN LoadRaised("AttributeError")
        ELSE IF branch = "definition" /\ ~ data_context
        THEN LoadRaised("ValueError")
        ELSE IF branch = "definition" /\ batch_definition.data_connector = ""
        THEN LoadRaised("AssertionError")
        ELSE IF in_memory_dataset # NoInMemoryDataset
                /\ (definition.data_asset_name = "" \/ definition.partition_name = "")
        THEN LoadRaised("ValueError")
        ELSE IF in_memory_dataset = NoInMemoryDataset /\ branch # "definition"
        THEN LoadRaised("UnboundLocalError")
        ELSE IF in_memory_dataset = NoInMemoryDataset
                /\ ConnectorClassName(batch_definition.data_connector) = "DataConnector"
        THEN LoadRaised("ValueError")
        ELSE IF in_memory_dataset = NoInMemoryDataset /\ spec.class # "PathBatchSpec"
        THEN LoadRaised("BatchSpecError")
        ELSE LoadReturned(batch_id, cache[batch_id], {df}, cache)

\* the tables a load can meet: in memory or behind a path
LoadFrames ==
    {Frame(<<ColA>>, [i \in 1..n |-> [c \in {ColA} |-> i]]) : n \in 1..MaxRows}
BatchDefinitions ==
    {NoBatchDefinition, BatchDefinition("files", "asset", "partition", 0),
     BatchDefinition("memory", "asset", "partition", 1),
     BatchDefinition("", "asset", "", 0)}
BatchSpecs == {NoBatchSpec, PathBatchSpec("path_1"), OtherBatchSpec}
Clock == 1..MaxClock

\* the batches a caller hands to get_domain_dataframe
SuppliedBatches ==
    {NoBatches, batches,
     [id \in {"batch_2"} |-> Batch(ScenarioFrame)],
     [id \in {"batch_1", "batch_2"} |-> Batch(ScenarioFrame)]}
BatchDomainKwargs ==
    {DomainOf(NoColumn), DomainOf(ColA), DomainOfBatch("batch_1", NoColumn),
     DomainOfBatch("batch_2", NoColumn), DomainOfBatch("batch_3", NoColumn),
     Domain(ABSENT, "t", ABSENT, ABSENT, NoColumn)}

InitBatches ==
    /\ batches = <<>>
    /\ loaded_batch_id = ABSENT
    /\ metrics = <<>>
    /\ last = NoCall

\* a call of load_batch
LoadBatchCall ==
    /\ last.op = "none"
    /\ \E batch_definition \in BatchDefinitions, batch_spec \in BatchSpecs, in_memory_dataset \in LoadFrames \cup {NoInMemoryDataset}, data_context \in BOOLEAN, now \in Clock, read \in LoadFrames :
         LET out == load_batch(batch_definition, batch_spec, in_memory_dataset, data_context, now, read)
         IN  /\ last' = [op |-> "load_batch",
                         in |-> [batch_definition |-> batch_definition,
                                 batch_spec |-> batch_spec,
                                 in_memory_dataset |-> in_memory_dataset,
                                 now |-> now,
                                 batches |-> batches,
                                 loaded_batch_id |-> loaded_batch_id],
                         out |-> out]
             /\ batches' = out.cache
             /\ loaded_batch_id' = IF out.outcome = "batch" THEN out.batch_id
                                   ELSE loaded_batch_id
    /\ UNCHANGED metrics

\* a call of get_domain_dataframe
GetDomainCall ==
    /\ last.op = "none"
    /\ \E domain_kwargs \in BatchDomainKwargs, batches_arg \in SuppliedBatches, filter_column_isnull \in BOOLEAN :
         last' = [op |-> "get_domain_dataframe",
                  in |-> [domain_kwargs |-> domain_kwargs,
                          batches |-> batches_arg,
                          filter_column_isnull |-> filter_column_isnull],
                  out |-> get_domain_dataframe(domain_kwargs, batches_arg, filter_column_isnull)]
    /\ UNCHANGED <<batches, loaded_batch_id, metrics>>

\* register_metric(metric_name, metric_domain_keys, metric_value_keys,
\*                 execution_engine=cls, metric_dependencies, metric_provider,
\*                 bundle_computation, filter_column_isnull): the call's arguments
register_metric(metric_name, metric_domain_keys, metric_value_keys, metric_dependencies, metric_provider, bundle_computation, filter_column_isnull) ==
    [metric_name |-> metric_name, metric_domain_keys |-> metric_domain_keys,
     metric_value_keys |-> metric_value_keys,
     metric_dependencies |-> metric_dependencies,
     metric_provider |-> metric_provider,
     bundle_computation |-> bundle_computation,
     filter_column_isnull |-> filter_column_isnull]

\* what outer() of column_map_metric registers, in the order of its calls;
\* a metric name is the sequence of its parts, "+" appends one
column_map_metric_declared_dependencies(metric_name, metric_domain_keys, metric_value_keys, metric_dependencies, filter_column_isnull) ==
    <<register_metric(metric_name, metric_domain_keys, metric_value_keys, metric_dependencies, "inner_func", FALSE, filter_column_isnull),
      register_metric(metric_name \o <<".count">>, metric_domain_keys, metric_value_keys, metric_dependencies, "_column_map_count", TRUE, filter_column_isnull),
      register_metric(metric_name \o <<".unexpected_values">>, metric_domain_keys, metric_value_keys \o <<"result_format">>, metric_dependencies, "_column_map_values", FALSE, filter_column_isnull),
      register_metric(metric_name \o <<".unexpected_value_counts">>, metric_domain_keys, metric_value_keys \o <<"result_format">>, metric_dependencies, "_column_map_value_counts", FALSE, filter_column_isnull),
      register_metric(metric_name \o <<".unexpected_rows">>, metric_domain_keys, metric_value_keys \o <<"result_format">>, metric_dependencies, "_column_map_rows", FALSE, filter_column_isnull)>>
column_map_metric(metric_name, metric_domain_keys, metric_value_keys, metric_dependencies, filter_column_isnull) ==
    <<register_metric(metric_name, metric_domain_keys, metric_value_keys, <<>>, "inner_func", FALSE, filter_column_isnull),
      register_metric(metric_name \o <<".count">>, metric_domain_keys, metric_value_keys, <<metric_name>>, "_column_map_count", TRUE, filter_column_isnull),
      register_metric(metric_name \o <<".unexpected_values">>, metric_domain_keys, metric_value_keys \o <<"result_format">>, <<metric_name>>, "_column_map_values", FALSE, filter_column_isnull),
      register_metric(metric_name \o <<".unexpected_value_counts">>, metric_domain_keys, metric_value_keys \o <<"result_format">>, <<metric_name>>, "_column_map_value_counts", FALSE, filter_column_isnull),
      register_metric(metric_name \o <<".unexpected_rows">>, metric_domain_keys, metric_value_keys \o <<"result_format">>, <<metric_name>>, "_column_map_rows", FALSE, filter_column_isnull)>>

\* a metric class is declared: the decorator runs
ColumnMapMetricCall ==
    /\ last.op = "none"
    /\ \E metric \in {Ge2, IsNull}, metric_value_keys \in {<<>>, <<"min_value">>}, metric_dependencies \in {<<>>, <<Ge2.metric_name>>} :
         last' = [op |-> "column_map_metric",
                  in |-> [metric_name |-> metric.metric_name,
                          metric_value_keys |-> metric_value_keys,
                          metric_dependencies |-> metric_dependencies,
                          filter_column_isnull |-> metric.filter_column_isnull],
                  out |-> column_map_metric(metric.metric_name, <<"batch_id", "table", "column">>, metric_value_keys, metric_dependencies, metric.filter_column_isnull)]
    /\ UNCHANGED <<batches, loaded_batch_id, metrics>>

NextBatches ==
    \/ LoadBatchCall
    \/ GetDomainCall
    \/ ColumnMapMetricCall
    \/ Return

SpecBatches == InitBatches /\ [][NextBatches]_vars

(***************************************************************************)
(* Properties of the map decorators                                        *)
(***************************************************************************)
DecoratorOps ==
    {"column_map_expectation", "column_pair_map_expectation",
     "multicolumn_map_expectation"}
DecoratorReport == last.op \in DecoratorOps /\ last.out.outcome = "report"
DecoratorEnded == last.op \in DecoratorOps /\ last.out.outcome # "none"

\* C1: every evaluation by a map decorator that returns a report has
\* unexpected_count = nonnull_count - success_count, and an empty evidence
\* list whenever unexpected_count is 0.
CountInvariant ==
    DecoratorReport =>
        /\ last.out.unexpected_count =
               last.out.nonnull_count - last.out.success_count
        /\ (last.out.unexpected_count = 0 => last.out.evidence = <<>>)

\* a report with successes and nothing unexpected, its evidence empty
CountInvariantWitness ==
    /\ DecoratorReport
    /\ last.out.success_count > 0
    /\ last.out.unexpected_count = 0
    /\ last.out.evidence = <<>>

\* C2: the evidence list has min(unexpected_count, partial_unexpected_count)
\* entries under BASIC and SUMMARY, for every partial_unexpected_count >= 0,
\* and unexpected_count entries under COMPLETE.
TruncationLaw ==
    DecoratorReport =>
        LET rf == last.in.result_format
        IN /\ rf.result_format \in {"BASIC", "SUMMARY"} =>
                 Len(last.out.evidence) =
                     Min(last.out.unexpected_count, rf.partial_unexpected_count)
           /\ rf.result_format = "COMPLETE" =>
                 Len(last.out.evidence) = last.out.unexpected_count

\* C4: expect_column_values_to_be_null and _to_not_be_null return a report
\* under every result format, and the report holds none of the missingness
\* keys.
MissingnessKeys ==
    {"missing_count", "missing_percent", "unexpected_percent_nonmissing",
     "partial_unexpected_counts"}
MissingnessOmission ==
    (last.op = "column_map_expectation" /\ last.in.func \in NullnessFuncs) =>
        /\ last.out.outcome = "report"
        /\ ("result" \in DOMAIN last.out.report =>
               (DOMAIN last.out.report["result"]) \cap MissingnessKeys = {})

\* C7: no invocation of a map decorator ends, by return or by error, with a
\* view it pinned still pinned.
PinnedViewsReleased == DecoratorEnded => last.out.pinned = {}

\* the rows of the loaded batch's column a, and those of them in [lo, hi]
ColumnAValues == [i \in 1..Len(dataframe.rows) |-> dataframe.rows[i][ColA]]
NonNullA == SelectSeq(ColumnAValues, LAMBDA v : v # NULL)
InsideA(lo, hi) == SelectSeq(NonNullA, LAMBDA v : lo <= v /\ v <= hi)
OutsideA(lo, hi) == SelectSeq(NonNullA, LAMBDA v : ~ (lo <= v /\ v <= hi))
InclusiveBetween(lo, hi) ==
    /\ last.op = "column_map_expectation"
    /\ last.in.func = "expect_column_values_to_be_between"
    /\ last.in.args = [min_value |-> lo, max_value |-> hi,
                       strict_min |-> FALSE, strict_max |-> FALSE]

\* C9: expect_column_values_to_be_between with inclusive bounds counts the
\* non-null rows, the non-null values inside the bounds and the remaining
\* ones, gives the out-of-range values in order as evidence and fails when
\* mostly is unset and a value is out of range; on [1, 2, 3, None, 5] with
\* bounds [2, 4] that is 4, 2, 2, [1, 5], False.
BetweenOnNulls ==
    /\ InclusiveBetween(2, 4) =>
          /\ last.out.outcome = "report"
          /\ last.out.nonnull_count = Len(NonNullA)
          /\ last.out.success_count = Len(InsideA(2, 4))
          /\ last.out.unexpected_count = Len(OutsideA(2, 4))
          /\ (last.in.result_format.result_format = "COMPLETE" =>
                 last.out.evidence = OutsideA(2, 4))
          /\ (last.in.mostly = NONE /\ Len(OutsideA(2, 4)) > 0 =>
                 last.out.report["success"] = FALSE)
    /\ (InclusiveBetween(2, 4) /\ dataframe = ScenarioFrame
           /\ last.in.mostly = NONE
           /\ last.in.result_format.result_format = "COMPLETE") =>
          /\ last.out.outcome = "report"
          /\ last.out.nonnull_count = 4
          /\ last.out.success_count = 2
          /\ last.out.unexpected_count = 2
          /\ last.out.evidence = <<1, 5>>
          /\ last.out.report["success"] = FALSE

\* C10: success is True exactly when success_count / nonnull_count >= mostly
\* (all rows in scope succeed, when mostly is unset), no row in scope is a
\* vacuous success, and [1, 2, 3, None, 5] with bounds [2, 4] and
\* mostly = 0.5 succeeds.
MostlyThreshold ==
    /\ DecoratorReport =>
          (last.out.report["success"] <=>
              IF last.out.nonnull_count = 0 THEN TRUE
              ELSE IF last.in.mostly = NONE
              THEN last.out.success_count = last.out.nonnull_count
              ELSE last.out.success_count * 100 >=
                       last.in.mostly * last.out.nonnull_count)
    /\ (InclusiveBetween(2, 4) /\ dataframe = ScenarioFrame /\ last.in.mostly = 50) =>
          /\ last.out.outcome = "report"
          /\ last.out.report["success"] = TRUE

(***************************************************************************)
(* Properties of the metric providers and of the bundled resolver          *)
(***************************************************************************)
\* C3: the condition returned by a provider registered with
\* filter_column_isnull = True is false on every row whose column value is
\* null, whatever the metric_fn gives for that row.
NullFilterWrapper ==
    (/\ last.op = "inner_func"
     /\ last.in.filter_column_isnull
     /\ last.out.outcome = "return") =>
        \A i \in 1..Len(dataframe.rows) :
            dataframe.rows[i][last.out.condition.column] = NULL =>
                EvalCondition(last.out.condition, dataframe.rows[i]) = SQL_FALSE

\* a filtered provider whose metric_fn is true on null, over a null row
NullFilterWrapperWitness ==
    /\ last.op = "inner_func"
    /\ last.in.filter_column_isnull
    /\ last.in.metric_fn = "is_null"
    /\ last.out.outcome = "return"
    /\ \E i \in 1..Len(dataframe.rows) :
          /\ dataframe.rows[i][last.out.condition.column] = NULL
          /\ EvalCondition(last.out.condition, dataframe.rows[i]) = SQL_FALSE

BatchResolveEnded == last.op = "batch_resolve"
PendingIds ==
    {last.in.resolve_batch[i].id : i \in 1..Len(last.in.resolve_batch)}
\* the rows of an entry's row domain
DomainRows(domain_kwargs) ==
    IF domain_kwargs.row_condition = ABSENT THEN dataframe.rows
    ELSE SelectSeq(dataframe.rows, LAMBDA r : r[ColB] # NULL)

\* C5: after batch_resolve returns, the value under each pending entry's id
\* is the value resolving that entry alone gives, which is the number of
\* rows of its domain on which its own condition is true.
BundlingEquivalence ==
    (BatchResolveEnded /\ last.out.outcome = "return") =>
        \A i \in 1..Len(last.in.resolve_batch) :
            LET entry == last.in.resolve_batch[i]
                own == last.in.metrics[ConditionKey(entry)]
                rows == DomainRows(entry.kwargs.metric_domain_kwargs)
            IN  /\ metrics[entry.id] =
                       batch_resolve(<<entry>>, last.in.metrics).metrics[entry.id]
                /\ metrics[entry.id] =
                       NumberValue(Len(SelectSeq(rows,
                           LAMBDA r : EvalCondition(own, r) = SQL_TRUE)))

\* C6: batch_resolve does not compute again a pending entry whose id has a
\* value in metrics: its provider is not called, no sum is requested for it
\* and the value stays.
NoRecomputation ==
    BatchResolveEnded =>
        \A id \in PendingIds \cap DOMAIN last.in.metrics :
            /\ id \notin Range(last.out.provider_calls)
            /\ \A q \in 1..Len(last.out.requested) :
                   id \notin Range(last.out.requested[q])
            /\ metrics[id] = last.in.metrics[id]

\* C8: whether batch_resolve returns or raises, every identity of metrics
\* that is not the id of a pending entry keeps its value.
SiblingsKept ==
    BatchResolveEnded =>
        \A k \in (DOMAIN last.in.metrics) \ PendingIds :
            k \in DOMAIN metrics /\ metrics[k] = last.in.metrics[k]

\* batch_resolve raised after it stored the sums of an earlier group, the
\* sibling and the conditions still in metrics
SiblingsKeptWitness ==
    /\ BatchResolveEnded
    /\ last.out.outcome = "error"
    /\ DOMAIN metrics # DOMAIN last.in.metrics
    /\ \E k \in (DOMAIN last.in.metrics) \ PendingIds : k # SiblingKey
    /\ metrics[SiblingKey] = last.in.metrics[SiblingKey]

(***************************************************************************)
(* C11: a call of expect_column_values_to_be_in_set whose value_set holds  *)
(* a None ends with an error, and no query (count, collect) was issued     *)
(* against the engine before the error.                                    *)
(***************************************************************************)
InSetWithNone ==
    /\ last.op = "column_map_expectation"
    /\ last.in.func = "expect_column_values_to_be_in_set"
    /\ ~last.in.args.none
    /\ NULL \in last.in.args.values
NoneRejectedBeforeQuery ==
    InSetWithNone => (last.out.outcome = "error" /\ last.out.queries = 0)

(***************************************************************************)
(* Properties of batch selection and of the batch cache                    *)
(***************************************************************************)
GetDomainEnded == last.op = "get_domain_dataframe"
LoadEnded == last.op = "load_batch"
LoadSucceeded == LoadEnded /\ last.out.outcome = "batch"

(***************************************************************************)
(* C19: the cache holds one Batch per batch id, the id being that of the   *)
(* batch specification; a load never replaces or changes a Batch the cache *)
(* holds and, for an id the cache holds, returns that Batch, with the data *)
(* and the load time of its first load; loaded_batch_id is the id of the   *)
(* latest successful load.                                                 *)
(***************************************************************************)
CacheKeepsBatches ==
    /\ \A id \in DOMAIN batches : to_id(batches[id].batch_spec) = id
    /\ LoadSucceeded =>
          /\ loaded_batch_id = last.out.batch_id
          /\ last.out.batch_id \in DOMAIN batches
          /\ last.out.batch = batches[last.out.batch_id]
          /\ \A id \in DOMAIN last.in.batches :
                id \in DOMAIN batches /\ batches[id] = last.in.batches[id]
          /\ (DOMAIN batches) \ (DOMAIN last.in.batches) \subseteq {last.out.batch_id}
    /\ (LoadEnded /\ last.out.outcome = "error") =>
          (batches = last.in.batches /\ loaded_batch_id = last.in.loaded_batch_id)
\* a specification is loaded again, at a later time and with other data
CacheKeepsBatchesWitness ==
    /\ LoadSucceeded
    /\ last.out.batch_id \in DOMAIN last.in.batches
    /\ last.out.batch.batch_markers.ge_load_time # last.in.now
    /\ last.out.batch.data # last.in.in_memory_dataset
    /\ last.in.loaded_batch_id # last.out.batch_id

(***************************************************************************)
(* C12: get_domain_dataframe takes the batch named by batch_id, from the   *)
(* supplied batches or else the loaded batch when it has that id; with no  *)
(* batch_id it takes the sole supplied batch when exactly one is supplied  *)
(* and otherwise the loaded batch.  Stated on the domains without table,   *)
(* row condition and column, whose view is the data of the batch.          *)
(***************************************************************************)
WholeBatchDomain ==
    /\ GetDomainEnded
    /\ last.in.domain_kwargs.table = ABSENT
    /\ last.in.domain_kwargs.row_condition = ABSENT
    /\ last.in.domain_kwargs.column = NoColumn
BatchSelection ==
    WholeBatchDomain =>
        LET batch_id == last.in.domain_kwargs.batch_id
            supplied == last.in.batches
        IN  /\ (batch_id # ABSENT /\ batch_id \in DOMAIN supplied) =>
                    last.out = DomainData(supplied[batch_id].data)
            /\ (batch_id # ABSENT /\ batch_id \notin DOMAIN supplied /\ batch_id = loaded_batch_id) =>
                    last.out = DomainData(loaded_batch.data)
            /\ (batch_id = ABSENT /\ Cardinality(DOMAIN supplied) = 1) =>
                    \A id \in DOMAIN supplied : last.out = DomainData(supplied[id].data)
            /\ (batch_id = ABSENT /\ Cardinality(DOMAIN supplied) # 1 /\ loaded_batch_id # ABSENT) =>
                    last.out = DomainData(loaded_batch.data)
\* the batch asked for is supplied while the engine has loaded other data
\* under the same id
BatchSelectionWitness ==
    /\ WholeBatchDomain
    /\ last.in.domain_kwargs.batch_id = loaded_batch_id
    /\ loaded_batch_id \in DOMAIN last.in.batches
    /\ last.in.batches[loaded_batch_id].data # loaded_batch.data
    /\ last.out = DomainData(last.in.batches[loaded_batch_id].data)

(***************************************************************************)
(* C13 as stated: get_domain_dataframe raises, returning no view, when no  *)
(* batch_id is given and more than one batch is available, and when the    *)
(* batch_id asked for is neither supplied nor the loaded batch's id.       *)
(***************************************************************************)
AmbiguousOrMissingRaises ==
    GetDomainEnded =>
        LET batch_id == last.in.domain_kwargs.batch_id
        IN  /\ (batch_id = ABSENT /\ Cardinality(DOMAIN last.in.batches) > 1) =>
                    (last.out.raised /\ last.out.data = NoFrame)
            /\ (batch_id # ABSENT /\ batch_id \notin DOMAIN last.in.batches /\ batch_id # loaded_batch_id) =>
                    (last.out.raised /\ last.out.data = NoFrame)
(***************************************************************************)
(* C13 amended: with no batch_id the call raises exactly when the supplied *)
(* batches are not exactly one and no batch is loaded, however many are    *)
(* supplied; with a batch_id it raises exactly when that id is neither     *)
(* supplied nor the loaded batch's id.                                     *)
(***************************************************************************)
NoBatchRaises ==
    GetDomainEnded =>
        LET batch_id == last.in.domain_kwargs.batch_id
            missing == IF batch_id = ABSENT
                       THEN Cardinality(DOMAIN last.in.batches) # 1 /\ loaded_batch_id = ABSENT
                       ELSE batch_id \notin DOMAIN last.in.batches /\ batch_id # loaded_batch_id
        IN  /\ missing => last.out = DomainRaised("ValidationError")
            /\ ~ missing => last.out.error # "ValidationError"
\* several batches are supplied, none is loaded and no batch_id is given
NoBatchRaisesWitness ==
    /\ GetDomainEnded
    /\ last.in.domain_kwargs.batch_id = ABSENT
    /\ Cardinality(DOMAIN last.in.batches) > 1
    /\ loaded_batch_id = ABSENT
    /\ last.out = DomainRaised("ValidationError")

(***************************************************************************)
(* C14: declaring a column-map condition metric M registers M itself, with *)
(* no dependencies and not bundlable, and exactly the four derived metrics *)
(* M.count, M.unexpected_values, M.unexpected_value_counts and             *)
(* M.unexpected_rows, each depending on exactly M and with M's             *)
(* filter_column_isnull; only M.count is bundlable, and the three evidence *)
(* metrics take M's value keys and result_format.                          *)
(***************************************************************************)
DerivedSuffixes ==
    {".count", ".unexpected_values", ".unexpected_value_counts", ".unexpected_rows"}
FourDerivedMetrics ==
    last.op = "column_map_metric" =>
        LET M == last.in.metric_name
            registered == last.out
            named(n) == {i \in 1..Len(registered) : registered[i].metric_name = n}
        IN  /\ {registered[i].metric_name : i \in 1..Len(registered)} = {M} \cup {M \o <<x>> : x \in DerivedSuffixes}
            /\ Len(registered) = 5
            /\ \A i \in named(M) :
                  /\ registered[i].metric_dependencies = <<>>
                  /\ ~ registered[i].bundle_computation
                  /\ registered[i].filter_column_isnull = last.in.filter_column_isnull
            /\ \A x \in DerivedSuffixes : \A i \in named(M \o <<x>>) :
                  /\ registered[i].metric_dependencies = <<M>>
                  /\ registered[i].filter_column_isnull = last.in.filter_column_isnull
                  /\ registered[i].bundle_computation = (x = ".count")
                  /\ x # ".count" =>
                        registered[i].metric_value_keys = last.in.metric_value_keys \o <<"result_format">>
\* a metric declared with dependencies of its own and a value key
FourDerivedMetricsWitness ==
    /\ last.op = "column_map_metric"
    /\ last.in.metric_dependencies # <<>>
    /\ last.in.metric_value_keys # <<>>
    /\ ~ last.in.filter_column_isnull
    /\ Len(last.out) = 5

(***************************************************************************)
(* Properties of the evidence providers                                    *)
(***************************************************************************)
\* the condition M the call reads and the rows of its domain
EvidenceCondition ==
    MetricsGet(metrics, MetricEdgeKey(last.in.metric.metric_name, last.in.metric_domain_kwargs, NoValueKwargs, last.in.metric.filter_column_isnull))
EvidenceResolved ==
    /\ last.op \in {"_column_map_values", "_column_map_rows"}
    /\ EvidenceCondition.kind = "condition"
    /\ "result_format" \in DOMAIN last.in.metric_value_kwargs
EvidenceCap(n) ==
    LET rf == last.in.metric_value_kwargs["result_format"]
    IN  IF rf.result_format = "COMPLETE" THEN n
        ELSE Min(rf.partial_unexpected_count, n)
FalseRows ==
    SelectSeq(DomainRows(last.in.metric_domain_kwargs), LAMBDA r : EvalCondition(EvidenceCondition, r) = SQL_FALSE)

(***************************************************************************)
(* C15: M.unexpected_rows returns full rows of the domain on which the     *)
(* condition M is false, never a row on which M is true: the first         *)
(* partial_unexpected_count of them, or all of them when result_format is  *)
(* COMPLETE.                                                               *)
(***************************************************************************)
UnexpectedRowsAreFalse ==
    (EvidenceResolved /\ last.op = "_column_map_rows") =>
        /\ last.out.outcome = "return"
        /\ last.out.collected = SubSeq(FalseRows, 1, EvidenceCap(Len(FalseRows)))

RowIgnored(policy, row, columns) ==
    CASE policy \in {"both_values_are_missing", "all_values_are_missing"} ->
            \A i \in 1..Len(columns) : row[columns[i]] = NULL
      [] policy \in {"either_value_is_missing", "any_value_is_missing"} ->
            \E i \in 1..Len(columns) : row[columns[i]] = NULL
      [] OTHER -> FALSE
KeptRows(policy, columns) ==
    Len(SelectSeq(dataframe.rows, LAMBDA r : ~ RowIgnored(policy, r, columns)))
IgnoreRowIfPolicies ==
    /\ (last.op = "column_pair_map_expectation" /\ HasCols(dataframe, last.in.columns)) =>
          IF last.in.ignore_row_if \in {"both_values_are_missing", "either_value_is_missing", "never"}
          THEN /\ last.out.outcome = "report"
               /\ last.out.nonnull_count = KeptRows(last.in.ignore_row_if, last.in.columns)
          ELSE last.out.outcome = "error" /\ last.out.report = NoReport
    /\ (last.op = "multicolumn_map_expectation" /\ HasCols(dataframe, last.in.columns)) =>
          IF last.in.ignore_row_if \in {"all_values_are_missing", "any_value_is_missing", "never"}
          THEN /\ last.out.outcome = "report"
               /\ last.out.nonnull_count = KeptRows(last.in.ignore_row_if, last.in.columns)
          ELSE last.out.outcome = "error" /\ last.out.report = NoReport

(***************************************************************************)
(* C18: get_column_mean, get_column_sum and get_column_stdev each raise a  *)
(* TypeError, and return no value, when the type of the column is not      *)
(* numeric.                                                                *)
(***************************************************************************)
NonNumericRaisesTypeError ==
    (last.op \in ColumnStatistics /\ last.in.dtype \notin NumericTypes) =>
        last.out = StatRaised("TypeError")

(***************************************************************************)
(* C20: batch_resolve groups its pending entries by row domain, the domain *)
(* kwargs without the column, and issues one aggregation per group, which  *)
(* asks for one value per pending entry of the group; a result of another  *)
(* number of rows or of values is a fatal error that stores nothing for    *)
(* the group.                                                              *)
(***************************************************************************)
RowDomainOf(id) == [id.metric_domain_kwargs EXCEPT !.column = NoColumn]
EntriesOfRowDomain(d) ==
    {i \in 1..Len(last.in.resolve_batch) : RowDomainOf(last.in.resolve_batch[i].id) = d}
OneAggregationPerRowDomain ==
    /\ (BatchResolveEnded /\ Len(last.out.provider_calls) = Len(last.in.resolve_batch)) =>
          LET requested == last.out.requested
          IN  /\ \A g \in 1..Len(requested) :
                    /\ requested[g] # <<>>
                    /\ \A i \in 1..Len(requested[g]) :
                          RowDomainOf(requested[g][i]) = RowDomainOf(requested[g][1])
                    /\ Len(requested[g]) =
                          Cardinality(EntriesOfRowDomain(RowDomainOf(requested[g][1])))
                    /\ \A h \in 1..Len(requested) :
                          RowDomainOf(requested[h][1]) = RowDomainOf(requested[g][1]) => h = g
              /\ last.out.outcome = "return" =>
                    \A i \in 1..Len(last.in.resolve_batch) :
                        \E g \in 1..Len(requested) :
                            RowDomainOf(requested[g][1]) = RowDomainOf(last.in.resolve_batch[i].id)
    /\ last.op = "store_aggregate" =>
          IF Len(last.in.res) = 1 /\ Len(last.in.res[1]) = Len(last.in.ids)
          THEN /\ ~ last.out.raised
               /\ \A i \in 1..Len(last.in.ids) : last.in.ids[i] \in DOMAIN metrics
          ELSE /\ last.out.raised
               /\ metrics = last.in.metrics
\* a pass whose two pending entries, of different columns, share a row
\* domain and so one aggregation
OneAggregationPerRowDomainWitness ==
    /\ BatchResolveEnded
    /\ last.out.outcome = "return"
    /\ Len(last.out.requested) = 1
    /\ Len(last.out.requested[1]) = 2
    /\ last.out.requested[1][1].metric_domain_kwargs.column # last.out.requested[1][2].metric_domain_kwargs.column
    /\ dataframe.rows # <<>>

(***************************************************************************)
(* C21: on every normal return of a map decorator the views the invocation *)
(* pinned have been released, the view unpersisted being the pinned one    *)
(* and not a view derived from it.                                         *)
(***************************************************************************)
NormalReturnReleasesPinned ==
    (DecoratorEnded /\ last.out.outcome = "report") => last.out.pinned = {}

(***************************************************************************)
(* C22: when a pending entry handed to batch_resolve is not bundlable, at  *)
(* whatever place of the sequence, the call raises, having issued no       *)
(* aggregation and added or changed no entry of the metrics dictionary.    *)
(***************************************************************************)
NonBundlable ==
    {i \in 1..Len(last.in.resolve_batch) : ~ last.in.resolve_batch[i].provider.can_be_bundled}
NonBundlableFailsFast ==
    (BatchResolveEnded /\ NonBundlable # {}) =>
        /\ last.out.outcome = "error"
        /\ last.out.requested = <<>>
        /\ metrics = last.in.metrics
\* the entry that is not bundlable stands after one that is, whose
\* condition is resolved
NonBundlableFailsFastWitness ==
    /\ BatchResolveEnded
    /\ NonBundlable = {2}
    /\ last.out.error = "AssertionError"
    /\ ConditionKey(last.in.resolve_batch[1]) \in DOMAIN last.in.metrics
    /\ dataframe.rows # <<>>

(***************************************************************************)
(* C28: batch_resolve is all or nothing: when it raises, at whatever       *)
(* point, none of the ids of its pending entries has been written to the   *)
(* metrics dictionary.                                                     *)
(***************************************************************************)
AllOrNothing ==
    (BatchResolveEnded /\ last.out.outcome = "error") =>
        \A i \in 1..Len(last.in.resolve_batch) :
            LET id == last.in.resolve_batch[i].id
            IN  /\ id \in DOMAIN metrics => id \in DOMAIN last.in.metrics
                /\ id \in DOMAIN last.in.metrics => metrics[id] = last.in.metrics[id]

(***************************************************************************)
(* C23: when the domain kwargs name a column, the view get_domain_dataframe *)
(* returns has that column under its normalized evaluation name, the one   *)
(* _get_eval_column_name gives, and, when filter_column_isnull is asked    *)
(* for, no row whose value in that column is null.                         *)
(***************************************************************************)
NormalizedEvalColumn ==
    (GetDomainEnded /\ ~ last.out.raised /\ last.in.domain_kwargs.column # NoColumn) =>
        LET eval_column == EvalColName("__eval_col_", last.in.domain_kwargs.column)
        IN  /\ HasCol(last.out.data, eval_column)
            /\ last.in.filter_column_isnull =>
                  \A i \in 1..count(last.out.data) : last.out.data.rows[i][eval_column] # NULL

(***************************************************************************)
(* C24: with output_strftime_format the column-map decorator parses each   *)
(* string unexpected value as a date and reformats it, and returns None    *)
(* and the values that are no strings unchanged; the column-pair decorator *)
(* reformats a pair when both its members are strings and returns every    *)
(* other pair unchanged, without ever raising on a mixed pair.  Stated for *)
(* strings that read as dates.                                             *)
(***************************************************************************)
Reformatted(val) == IF val.kind = "str" THEN PyValue("formatted", val.v) ELSE val
DateStringsOnly(vals) == \A val \in vals : ~ (val.kind = "str" /\ val.v = 0)
StrftimePassThrough ==
    /\ (last.op = "column_map_strftime" /\ DateStringsOnly(Range(last.in.list))) =>
          /\ ~ last.out.raised
          /\ last.out.list = [i \in 1..Len(last.in.list) |-> Reformatted(last.in.list[i])]
    /\ last.op = "column_pair_strftime" =>
          /\ ~ last.out.raised
          /\ last.out.list =
                [i \in 1..Len(last.in.list) |->
                    LET val == last.in.list[i]
                    IN  IF val[1].kind = "str" /\ val[2].kind = "str"
                        THEN <<Reformatted(val[1]), Reformatted(val[2])>>
                        ELSE val]

(***************************************************************************)
(* C25: for increasing bin edges b0 < ... < bk, k >= 1, b0 possibly        *)
(* -infinity and bk possibly +infinity, get_column_hist returns exactly k  *)
(* counts: count i is the number of non-null values of the column in       *)
(* [b_i, b_i+1), in [b_k-1, b_k] for the last bin; values outside          *)
(* [b0, bk] are counted in no bin.                                         *)
(***************************************************************************)
InBin(bins, i, v) ==
    /\ bins[i] <= v
    /\ IF i = Len(bins) - 1 THEN v <= bins[i + 1] ELSE v < bins[i + 1]
HistogramCounts ==
    last.op = "get_column_hist" =>
        LET bins == last.in.bins
            values == NonNullValues(last.in.column)
        IN  /\ ~ last.out.raised
            /\ last.out.hist =
                  [i \in 1..(Len(bins) - 1) |->
                      Len(SelectSeq(values, LAMBDA v : InBin(bins, i, v)))]

(***************************************************************************)
(* C26: in the multicolumn decorator, for a column_list of any length      *)
(* >= 1 naming columns of the table, the evaluation view built in step 1   *)
(* holds one normalized evaluation column for every listed column, so the  *)
(* selection of all evaluation columns is defined on it.                   *)
(***************************************************************************)
EvalColsOf(column_list) ==
    [i \in 1..Len(column_list) |-> EvalColName("__eval_col_", column_list[i])]
EveryEvalColumnInView ==
    (last.op = "multicolumn_map_expectation" /\ HasCols(dataframe, last.in.columns)) =>
        LET eval_cols == EvalColsOf(last.in.columns)
        IN  /\ HasCols(MulticolumnSparkDf(last.in.columns, eval_cols), eval_cols)
            /\ ~ (last.out.outcome = "error" /\ last.out.error = "AnalysisException")

(***************************************************************************)
(* C27: in every evaluation by a map decorator that returns a report, for  *)
(* every wrapped expectation function and every input,                     *)
(* 0 <= success_count <= nonnull_count <= element_count, so                *)
(* unexpected_count is never negative and never exceeds nonnull_count.     *)
(***************************************************************************)
CountsOrdered ==
    DecoratorReport =>
        /\ 0 <= last.out.success_count
        /\ last.out.success_count <= last.out.nonnull_count
        /\ last.out.nonnull_count <= last.out.element_count
        /\ 0 <= last.out.unexpected_count
        /\ last.out.unexpected_count <= last.out.nonnull_count

(***************************************************************************)
(* C29: every dataframe that load_batch pinned with persist() is the data  *)
(* of a Batch held in the batch cache; loading a specification whose id is *)
(* already cached pins no dataframe that the cache does not reference.     *)
(***************************************************************************)
PinnedAreCached ==
    LoadSucceeded =>
        \A df \in last.out.persisted : \E id \in DOMAIN batches : batches[id].data = df

(***************************************************************************)
(* C30: expect_multicolumn_values_to_be_unique marks a row as a success if *)
(* and only if the values of the listed columns in that row are pairwise   *)
(* distinct, two nulls counting as equal, for every number of listed       *)
(* columns >= 2 and every arrangement of the values.                       *)
(***************************************************************************)
PairwiseDistinct(column_names, r) ==
    \A i, j \in 1..Len(column_names) : i # j => r[column_names[i]] # r[column_names[j]]
SuccessIffPairwiseDistinct ==
    last.op = "expect_multicolumn_values_to_be_unique" =>
        LET column_list == last.in.column_list
        IN  /\ ~ last.out.raised
            /\ count(last.out.df) = count(column_list)
            /\ \A k \in 1..count(column_list) :
                  last.out.df.rows[k][SUCCESS]
                      = Bool3(PairwiseDistinct(column_list.cols, column_list.rows[k]))

====
